---- MODULE Spec2Model ----
(***************************************************************************)
(* The OAuth2 login clients of globus_sdk (AuthLoginClient and             *)
(* ConfidentialAppAuthClient) as a state machine: the client's fields, the  *)
(* single "current flow" slot, and every login operation as one action.     *)
(*                                                                          *)
(* Python values are tagged records ([t |-> "None"], [t |-> "str", ...]),   *)
(* dicts are functions from keys to strings, objects carry an identity.     *)
(***************************************************************************)
EXTENDS Integers, Sequences, FiniteSets, TLC

VARIABLES
    client_id,                    \* self.client_id of each client
    authorizer,                   \* type of self.authorizer of each client
    kind,                         \* class of each client
    current_oauth2_flow_manager,  \* the current-flow slot of each client
    holds,                        \* the client each caller uses
    started,                      \* per caller: its last oauth2_start_flow call (object id, arguments)
    returned,                     \* per caller: the value its last oauth2_start_flow returned
    pc,                           \* per caller: position inside a handler (SpecShared)
    pending,                      \* per caller: the auth_code of the exchange in progress
    next_id,                      \* identity of the next object constructed
    lastCall,                     \* the last completed call: arguments, effects, outcome
    exchanged,                    \* the exchanges since the last oauth2_start_flow (SpecExchange)
    normalized,                   \* the last session requirement normalised (SpecJoin)
    joined,                       \* the last slash_join: its arguments and its result (SpecSlash)
    tokens,                       \* the last token payload and the response object made of it (SpecTokens)
    flowsCall,                    \* the last completed call of a FlowsClient (SpecFlows)
    source,                       \* the listing the service holds: its pages (SpecPaging)
    pager,                        \* the Paginator being iterated (SpecPaging)
    consumer                      \* the caller of the listing: its arguments, the calls its Paginators made

vars == <<client_id, authorizer, kind, current_oauth2_flow_manager, holds,
          started, returned, pc, pending, next_id, lastCall, exchanged, normalized,
          joined, tokens, flowsCall, source, pager, consumer>>

clientVars == <<client_id, authorizer, kind>>

loginVars == <<client_id, authorizer, kind, current_oauth2_flow_manager, holds,
               started, returned, pc, pending, next_id, lastCall, exchanged>>

\* The record of the exchanges, kept by the actions of SpecExchange alone.
logVars == <<exchanged>>

\* What the login clients' operations never touch.
utilVars == <<normalized, joined, tokens, flowsCall, source, pager, consumer>>

\* The state of the Flows client and of its listings.
flowsVars == <<flowsCall, source, pager, consumer>>

\* The results of the pure functions.
pureVars == <<normalized, joined, tokens>>

\* ---------------------------------------------------------------- bounds

\* Flow managers constructed in one behaviour.
MaxFlows == 3

Clients == {"c1", "c2"}
Callers == {"A", "B"}

\* ------------------------------------------------------- Python values

None == [t |-> "None"]
PyStr(s) == [t |-> "str", s |-> s]
PyUUID(h) == [t |-> "uuid", hex |-> h]
PyList(xs) == [t |-> "list", items |-> xs]

EmptyDict == [k \in {} |-> ""]

\* dict.update: the entries of b, then those of a that b does not have.
DictUpdate(a, b) ==
    [k \in DOMAIN a \cup DOMAIN b |-> IF k \in DOMAIN b THEN b[k] ELSE a[k]]

\* d[key] = value
DictSet(d, key, value) ==
    [k \in DOMAIN d \cup {key} |-> IF k = key THEN value ELSE d[k]]

\* Truthiness of a dict-or-None argument (`if body_params:`).
Truthy(d) == d # None /\ DOMAIN d # {}

\* str(x) of a str or a UUID.
Str(x) == IF x.t = "str" THEN x.s ELSE x.hex

\* ------------------------------------------------------------ utils.py

RECURSIVE StrJoin(_, _)
StrJoin(sep, xs) ==
    IF xs = <<>> THEN ""
    ELSE IF Len(xs) = 1 THEN xs[1]
    ELSE xs[1] \o sep \o StrJoin(sep, Tail(xs))

safe_strseq_iter(value) ==
    IF value.t = "str" THEN <<value.s>>
    ELSE IF value.t = "uuid" THEN <<Str(value)>>
    ELSE [i \in 1..Len(value.items) |-> Str(value.items[i])]

\* isinstance(val, collections.abc.Iterable)
IsIterable(val) == val.t \in {"str", "list"}

\* commajoin with ", " for the separator.
commajoin_spaced(val) ==
    IF IsIterable(val) THEN StrJoin(", ", safe_strseq_iter(val))
    ELSE Str(val)

commajoin(val) ==
    IF IsIterable(val) THEN StrJoin(",", safe_strseq_iter(val))
    ELSE Str(val)

\* A str as the sequence of its characters, where the characters matter.
PyChars(cs) == [t |-> "str", chars |-> cs]

\* slash_join that puts a slash between a and b whatever they end and start
\* with.
slash_join_always_adds(a, b) ==
    IF b = None \/ b.chars = <<>> THEN a
    ELSE a \o <<"/">> \o b.chars

\* slash_join(a, b), a and its result as sequences of characters.
slash_join(a, b) ==
    IF b = None \/ b.chars = <<>> THEN a
    ELSE IF a # <<>> /\ a[Len(a)] = "/"
         THEN IF b.chars[1] = "/" THEN SubSeq(a, 1, Len(a) - 1) \o b.chars
              ELSE a \o b.chars
         ELSE IF b.chars[1] = "/" THEN a \o b.chars
              ELSE a \o <<"/">> \o b.chars

\* ------------------------------------------------------------ transport

Request(method, path, data, encoding) ==
    [method |-> method, path |-> path, data |-> data, encoding |-> encoding]

TransportOutcomes == {"ok", "NetworkError", "GlobusAPIError"}

HTTPResponse(req) == [t |-> "GlobusHTTPResponse", path |-> req.path]

\* What a handler leaves behind: the client's fields after it (self), the
\* exception raised ("" when it returned), the value returned, the requests
\* it sent, the flow-manager methods it called, and the caller's mutable
\* arguments as they are after the call.
Outcome(self, raised, value, requests, fm_calls, after) ==
    [self |-> self, raised |-> raised, value |-> value, requests |-> requests,
     fm_calls |-> fm_calls, after |-> after]

\* self.post(path, data=..., encoding="form") / self.get(path): one request;
\* the transport answers or raises.
Send(req, outcome) ==
    IF outcome = "ok"
    THEN [raised |-> "", value |-> HTTPResponse(req), requests |-> <<req>>]
    ELSE [raised |-> outcome, value |-> None, requests |-> <<req>>]

post(path, data, outcome) == Send(Request("POST", path, data, "form"), outcome)

get(path, outcome) == Send(Request("GET", path, EmptyDict, ""), outcome)

\* ------------------------------- GlobusAuthorizationCodeFlowManager

AuthorizeBase == "https://auth.globus.org/v2/oauth2/authorize"

DefaultScopes ==
    "openid profile email urn:globus:auth:scope:transfer.api.globus.org:all"

stringify_requested_scopes(requested_scopes) ==
    IF requested_scopes = None THEN DefaultScopes
    ELSE StrJoin(" ", safe_strseq_iter(requested_scopes))

\* The manager object: its identity, its client, and the constructor's
\* arguments a.
GlobusAuthorizationCodeFlowManager(id, auth_client, cid, a) ==
    [t |-> "GlobusAuthorizationCodeFlowManager", id |-> id,
     auth_client |-> auth_client, client_id |-> cid,
     redirect_uri |-> a.redirect_uri, requested_scopes |-> a.requested_scopes,
     state |-> a.state, refresh_tokens |-> a.refresh_tokens]

FlowManager_get_authorize_url(mgr, query_params) ==
    [t |-> "url", base |-> AuthorizeBase,
     query |-> DictUpdate(
        [client_id |-> mgr.client_id,
         redirect_uri |-> mgr.redirect_uri,
         response_type |-> "code",
         state |-> mgr.state,
         scope |-> stringify_requested_scopes(mgr.requested_scopes),
         access_type |-> IF mgr.refresh_tokens THEN "offline" ELSE "online"],
        query_params)]

FlowManager_exchange_form_data(mgr, auth_code) ==
    [grant_type |-> "authorization_code", code |-> auth_code]

FmCall(mgr, method) == [id |-> mgr.id, method |-> method]

\* --------------------------------------------------- AuthLoginClient

AuthLoginClient_client_id(arg) == IF arg # None THEN PyStr(Str(arg)) ELSE None

\* `not self.current_oauth2_flow_manager`
NoCurrentFlow(self) == self.current_oauth2_flow_manager = None

\* oauth2_get_authorize_url that leaves alone a key the query_params already
\* have.
authorize_query_params_keep_existing(a) ==
    LET q0 == IF a.query_params = None THEN EmptyDict ELSE a.query_params
        given == [session_required_identities |->
                    IF a.session_required_identities # None
                    THEN commajoin(a.session_required_identities) ELSE "",
                  session_required_single_domain |->
                    IF a.session_required_single_domain # None
                    THEN commajoin(a.session_required_single_domain) ELSE "",
                  session_required_policies |->
                    IF a.session_required_policies # None
                    THEN commajoin(a.session_required_policies) ELSE "",
                  prompt |-> IF a.prompt # None THEN a.prompt.s ELSE ""]
        set == {k \in DOMAIN given : a[k] # None}
    IN  DictUpdate([k \in set |-> given[k]], q0)

\* The query_params dict as oauth2_get_authorize_url leaves it.
authorize_query_params(a) ==
    LET q0 == IF a.query_params = None THEN EmptyDict ELSE a.query_params
        q1 == IF a.session_required_identities # None
              THEN DictSet(q0, "session_required_identities",
                           commajoin(a.session_required_identities))
              ELSE q0
        q2 == IF a.session_required_single_domain # None
              THEN DictSet(q1, "session_required_single_domain",
                           commajoin(a.session_required_single_domain))
              ELSE q1
        q3 == IF a.session_required_policies # None
              THEN DictSet(q2, "session_required_policies",
                           commajoin(a.session_required_policies))
              ELSE q2
    IN  IF a.prompt # None THEN DictSet(q3, "prompt", a.prompt.s) ELSE q3

\* The caller's query_params object after the call: the dict the handler
\* wrote into is the caller's own whenever the caller passed one.
authorize_query_params_after(a) ==
    IF a.query_params = None THEN None ELSE authorize_query_params(a)

\* oauth2_get_authorize_url without its test of the slot: the attribute
\* access on None raises AttributeError.
oauth2_get_authorize_url_unchecked(self, a) ==
    IF NoCurrentFlow(self)
    THEN Outcome(self, "AttributeError", None, <<>>, <<>>,
                 [query_params |-> authorize_query_params_after(a)])
    ELSE Outcome(self, "",
                 FlowManager_get_authorize_url(self.current_oauth2_flow_manager,
                                               authorize_query_params(a)),
                 <<>>,
                 <<FmCall(self.current_oauth2_flow_manager, "get_authorize_url")>>,
                 [query_params |-> authorize_query_params_after(a)])

oauth2_get_authorize_url(self, a) ==
    IF NoCurrentFlow(self)
    THEN Outcome(self, "GlobusSDKUsageError", None, <<>>, <<>>,
                 [query_params |-> a.query_params])
    ELSE Outcome(self, "",
                 FlowManager_get_authorize_url(self.current_oauth2_flow_manager,
                                               authorize_query_params(a)),
                 <<>>,
                 <<FmCall(self.current_oauth2_flow_manager, "get_authorize_url")>>,
                 [query_params |-> authorize_query_params_after(a)])

\* dict.update with the precedence reversed: form_data wins a collision.
oauth2_token_data_form_wins(form_data, body_params) ==
    IF Truthy(body_params) THEN DictUpdate(body_params, form_data) ELSE form_data

\* The body oauth2_token posts.
oauth2_token_data(form_data, body_params) ==
    IF Truthy(body_params) THEN DictUpdate(form_data, body_params) ELSE form_data

\* oauth2_token_call that returns the transport's response as it is, not
\* wrapped in response_class.
oauth2_token_call_unwrapped(form_data, body_params, response_class, outcome) ==
    post("/v2/oauth2/token", oauth2_token_data(form_data, body_params), outcome)

\* oauth2_token_call that sends the request a second time when the first
\* attempt raised.
oauth2_token_call_retry(form_data, body_params, response_class, outcome) ==
    LET r == post("/v2/oauth2/token", oauth2_token_data(form_data, body_params), outcome)
    IN  IF r.raised # "" THEN [r EXCEPT !.requests = r.requests \o r.requests]
        ELSE [r EXCEPT !.value = [t |-> response_class, http |-> r.value]]

\* response_class(self.post("/v2/oauth2/token", data=data, encoding="form"))
oauth2_token_call(form_data, body_params, response_class, outcome) ==
    LET r == post("/v2/oauth2/token", oauth2_token_data(form_data, body_params), outcome)
    IN  IF r.raised # "" THEN r
        ELSE [r EXCEPT !.value = [t |-> response_class, http |-> r.value]]

\* The keyword argument response_class, OAuthTokenResponse when not given.
NotGiven == "NotGiven"

\* oauth2_token whose default response class is the plain response.
response_class_or_default_plain(response_class) ==
    IF response_class = NotGiven THEN "GlobusHTTPResponse" ELSE response_class

response_class_or_default(response_class) ==
    IF response_class = NotGiven THEN "OAuthTokenResponse" ELSE response_class

\* oauth2_token that merges body_params into the caller's form_data itself.
oauth2_token_in_place(self, a, outcome) ==
    LET r == oauth2_token_call(a.form_data, a.body_params,
                               response_class_or_default(a.response_class), outcome)
    IN  Outcome(self, r.raised, r.value, r.requests, <<>>,
                [form_data |-> oauth2_token_data(a.form_data, a.body_params),
                 body_params |-> a.body_params])

oauth2_token(self, a, outcome) ==
    LET r == oauth2_token_call(a.form_data, a.body_params,
                               response_class_or_default(a.response_class), outcome)
    IN  Outcome(self, r.raised, r.value, r.requests, <<>>,
                [form_data |-> a.form_data, body_params |-> a.body_params])

\* oauth2_exchange_code_for_tokens that tests the slot only after the request.
oauth2_exchange_code_for_tokens_late_check(self, a, outcome) ==
    IF NoCurrentFlow(self)
    THEN LET r == oauth2_token_call([grant_type |-> "authorization_code",
                                     code |-> a.auth_code], None,
                                    "OAuthTokenResponse", outcome)
         IN  Outcome(self, IF r.raised # "" THEN r.raised ELSE "GlobusSDKUsageError",
                     None, r.requests, <<>>, EmptyDict)
    ELSE LET mgr == self.current_oauth2_flow_manager
             r == oauth2_token_call(FlowManager_exchange_form_data(mgr, a.auth_code),
                                    None, "OAuthTokenResponse", outcome)
         IN  Outcome(self, r.raised, r.value, r.requests,
                     <<FmCall(mgr, "exchange_code_for_tokens")>>, EmptyDict)

\* oauth2_exchange_code_for_tokens that drops the flow once its code is
\* exchanged (a single-use flow).
oauth2_exchange_code_for_tokens_single_use(self, a, outcome) ==
    IF NoCurrentFlow(self)
    THEN Outcome(self, "GlobusSDKUsageError", None, <<>>, <<>>, EmptyDict)
    ELSE LET mgr == self.current_oauth2_flow_manager
             r == oauth2_token_call(FlowManager_exchange_form_data(mgr, a.auth_code),
                                    None, "OAuthTokenResponse", outcome)
         IN  Outcome(IF r.raised = ""
                     THEN [self EXCEPT !.current_oauth2_flow_manager = None]
                     ELSE self,
                     r.raised, r.value, r.requests,
                     <<FmCall(mgr, "exchange_code_for_tokens")>>, EmptyDict)

oauth2_exchange_code_for_tokens(self, a, outcome) ==
    IF NoCurrentFlow(self)
    THEN Outcome(self, "GlobusSDKUsageError", None, <<>>, <<>>, EmptyDict)
    ELSE LET mgr == self.current_oauth2_flow_manager
             r == oauth2_token_call(FlowManager_exchange_form_data(mgr, a.auth_code),
                                    None, "OAuthTokenResponse", outcome)
         IN  Outcome(self, r.raised, r.value, r.requests,
                     <<FmCall(mgr, "exchange_code_for_tokens")>>, EmptyDict)

refresh_form_data(refresh_token) ==
    [refresh_token |-> refresh_token, grant_type |-> "refresh_token"]

\* oauth2_refresh_token that posts to an endpoint of its own, as the
\* validation and the revocation do, and returns the transport's response.
oauth2_refresh_token_direct(self, a, outcome) ==
    LET r == post("/v2/oauth2/token/refresh",
                  oauth2_token_data(refresh_form_data(a.refresh_token), a.body_params),
                  outcome)
    IN  Outcome(self, r.raised, r.value, r.requests, <<>>,
                [body_params |-> a.body_params])

oauth2_refresh_token(self, a, outcome) ==
    LET r == oauth2_token_call(refresh_form_data(a.refresh_token), a.body_params,
                               "OAuthTokenResponse", outcome)
    IN  Outcome(self, r.raised, r.value, r.requests, <<>>,
                [body_params |-> a.body_params])

\* _guards.is_optional(self.authorizer, NullAuthorizer)
is_optional_NullAuthorizer(auth) == auth = "None" \/ auth = "NullAuthorizer"

StrTruthy(x) == x # None /\ x.s # ""

\* validate_body that sends the client_id of every client that has one,
\* authenticated or not.
validate_body_any_authorizer(self, a) ==
    LET b0 == [token |-> a.token]
        b1 == IF StrTruthy(self.client_id)
              THEN DictUpdate(b0, [client_id |-> self.client_id.s])
              ELSE b0
    IN  IF Truthy(a.body_params) THEN DictUpdate(b1, a.body_params) ELSE b1

validate_body(self, a) ==
    LET b0 == [token |-> a.token]
        b1 == IF is_optional_NullAuthorizer(self.authorizer) /\ StrTruthy(self.client_id)
              THEN DictUpdate(b0, [client_id |-> self.client_id.s])
              ELSE b0
    IN  IF Truthy(a.body_params) THEN DictUpdate(b1, a.body_params) ELSE b1

oauth2_validate_token(self, a, outcome) ==
    LET r == post("/v2/oauth2/token/validate", validate_body(self, a), outcome)
    IN  Outcome(self, r.raised, r.value, r.requests, <<>>,
                [body_params |-> a.body_params])

\* revoke_body that takes only a missing authorizer (None) for "no
\* authentication", not a NullAuthorizer.
revoke_body_none_only(self, a) ==
    LET b0 == [token |-> a.token]
        no_authentication == self.authorizer = "None"
        b1 == IF no_authentication /\ StrTruthy(self.client_id)
              THEN DictUpdate(b0, [client_id |-> self.client_id.s])
              ELSE b0
    IN  IF Truthy(a.body_params) THEN DictUpdate(b1, a.body_params) ELSE b1

revoke_body(self, a) ==
    LET b0 == [token |-> a.token]
        no_authentication ==
            self.authorizer = "None" \/ self.authorizer = "NullAuthorizer"
        b1 == IF no_authentication /\ StrTruthy(self.client_id)
              THEN DictUpdate(b0, [client_id |-> self.client_id.s])
              ELSE b0
    IN  IF Truthy(a.body_params) THEN DictUpdate(b1, a.body_params) ELSE b1

\* oauth2_revoke_token that also ends the current flow (a "logout").
oauth2_revoke_token_ends_flow(self, a, outcome) ==
    LET r == post("/v2/oauth2/token/revoke", revoke_body(self, a), outcome)
    IN  Outcome([self EXCEPT !.current_oauth2_flow_manager = None],
                r.raised, r.value, r.requests, <<>>,
                [body_params |-> a.body_params])

oauth2_revoke_token(self, a, outcome) ==
    LET r == post("/v2/oauth2/token/revoke", revoke_body(self, a), outcome)
    IN  Outcome(self, r.raised, r.value, r.requests, <<>>,
                [body_params |-> a.body_params])

oauth2_userinfo(self, a, outcome) ==
    LET r == get("/v2/oauth2/userinfo", outcome)
    IN  Outcome(self, r.raised, r.value, r.requests, <<>>, EmptyDict)

\* ----------------------------------------- ConfidentialAppAuthClient

client_credentials_form_data(requested_scopes) ==
    [grant_type |-> "client_credentials",
     scope |-> stringify_requested_scopes(requested_scopes)]

\* oauth2_client_credentials_tokens that wants a current flow, as the
\* authorization-code operations do.
oauth2_client_credentials_tokens_needs_flow(self, a, outcome) ==
    IF NoCurrentFlow(self)
    THEN Outcome(self, "GlobusSDKUsageError", None, <<>>, <<>>, EmptyDict)
    ELSE LET r == oauth2_token_call(client_credentials_form_data(a.requested_scopes),
                                    None, "OAuthTokenResponse", outcome)
         IN  Outcome(self, r.raised, r.value, r.requests, <<>>, EmptyDict)

oauth2_client_credentials_tokens(self, a, outcome) ==
    LET r == oauth2_token_call(client_credentials_form_data(a.requested_scopes),
                               None, "OAuthTokenResponse", outcome)
    IN  Outcome(self, r.raised, r.value, r.requests, <<>>, EmptyDict)

\* The constructor call without state=state: the manager gets the default.
start_flow_manager_default_state(self, c, id, a) ==
    GlobusAuthorizationCodeFlowManager(id, c, self.client_id.s,
        [redirect_uri |-> a.redirect_uri, requested_scopes |-> a.requested_scopes,
         state |-> "_default", refresh_tokens |-> a.refresh_tokens])

\* GlobusAuthorizationCodeFlowManager(self, redirect_uri, requested_scopes=...,
\* state=..., refresh_tokens=...)
start_flow_manager(self, c, id, a) ==
    GlobusAuthorizationCodeFlowManager(id, c, self.client_id.s,
        [redirect_uri |-> a.redirect_uri, requested_scopes |-> a.requested_scopes,
         state |-> a.state, refresh_tokens |-> a.refresh_tokens])

\* An assignment that keeps a manager that is already current.
start_flow_assign_keep(self, mgr) ==
    IF self.current_oauth2_flow_manager # None THEN self
    ELSE [self EXCEPT !.current_oauth2_flow_manager = mgr]

\* The client after the assignment to self.current_oauth2_flow_manager.
start_flow_assign(self, mgr) == [self EXCEPT !.current_oauth2_flow_manager = mgr]

oauth2_start_flow(self, c, id, a) ==
    LET self2 == start_flow_assign(self, start_flow_manager(self, c, id, a))
    IN  Outcome(self2, "", self2.current_oauth2_flow_manager, <<>>, <<>>, EmptyDict)

\* dependent_tokens_form_data in which the computed fields are written after
\* additional_params, and so win a collision.
dependent_tokens_form_data_params_first(a) ==
    LET f0 == [grant_type |-> "urn:globus:auth:grant_type:dependent_token",
               token |-> a.token]
        f1 == IF a.refresh_tokens THEN DictSet(f0, "access_type", "offline") ELSE f0
    IN  IF Truthy(a.additional_params) THEN DictUpdate(a.additional_params, f1) ELSE f1

dependent_tokens_form_data(a) ==
    LET f0 == [grant_type |-> "urn:globus:auth:grant_type:dependent_token",
               token |-> a.token]
        f1 == IF a.refresh_tokens THEN DictSet(f0, "access_type", "offline") ELSE f0
    IN  IF Truthy(a.additional_params) THEN DictUpdate(f1, a.additional_params) ELSE f1

oauth2_get_dependent_tokens(self, a, outcome) ==
    LET r == oauth2_token_call(dependent_tokens_form_data(a), None,
                               "OAuthDependentTokenResponse", outcome)
    IN  Outcome(self, r.raised, r.value, r.requests, <<>>,
                [additional_params |-> a.additional_params])

introspect_body(a) ==
    LET b0 == [token |-> a.token]
    IN  IF a.include # None THEN DictSet(b0, "include", a.include.s) ELSE b0

oauth2_token_introspect(self, a, outcome) ==
    LET r == post("/v2/oauth2/token/introspect", introspect_body(a), outcome)
    IN  Outcome(self, r.raised, r.value, r.requests, <<>>, EmptyDict)

\* -------------------------------------------------- OAuthTokenResponse

\* The token record made of one token object of a payload at the time `now`.
token_info(tok, now) ==
    [access_token |-> tok.access_token, scope |-> tok.scope,
     token_type |-> tok.token_type, resource_server |-> tok.resource_server,
     expires_at_seconds |-> now + tok.expires_in,
     refresh_token |-> IF "refresh_token" \in DOMAIN tok THEN PyStr(tok.refresh_token)
                       ELSE None]

\* OAuthTokenResponse.by_resource_server: the token object at the top level
\* of the body, if there is one, and the token objects of other_tokens, each
\* under its resource server.
by_resource_server(body, now) ==
    LET top == IF "resource_server" \in DOMAIN body
               THEN body.resource_server :> token_info(body, now)
               ELSE EmptyDict
        others == IF "other_tokens" \in DOMAIN body THEN body.other_tokens ELSE <<>>
        last(rs) == CHOOSE i \in DOMAIN others :
                        /\ others[i].resource_server = rs
                        /\ \A j \in DOMAIN others :
                                others[j].resource_server = rs => j <= i
    IN  DictUpdate(top,
            [rs \in {others[i].resource_server : i \in DOMAIN others} |->
                token_info(others[last(rs)], now)])

\* What the object oauth2_token returned exposes as by_resource_server: a
\* response class that is not a token response has no such mapping.
response_by_resource_server(response, body, now) ==
    IF response.t = "OAuthTokenResponse" THEN by_resource_server(body, now) ELSE None

\* ------------------------------------------------------- FlowsClient

\* What the service does with a request: it answers with a status and a
\* body, or the connection fails.
ServerResponse(status, body) == [t |-> "response", status |-> status, body |-> body]
ConnectionFailure == [t |-> "NetworkError"]

\* The body of an error response: the service's code and its messages.
ErrorBody(code, messages) == [code |-> code, messages |-> messages]

\* The exception made of a non-2xx response: an instance of error_class with
\* the code and the messages of the response body.
APIError(error_class, answer) ==
    [t |-> error_class, http_status |-> answer.status,
     code |-> answer.body.code, messages |-> answer.body.messages]

\* BaseClient.request: one request; a 2xx response is returned, any other is
\* raised as the client's error_class.
BaseClient_request(error_class, req, answer) ==
    IF answer.t = "NetworkError"
    THEN [raised |-> "NetworkError", error |-> None, value |-> None, requests |-> <<req>>]
    ELSE IF answer.status \in 200..299
    THEN [raised |-> "", error |-> None,
          value |-> [t |-> "GlobusHTTPResponse", http_status |-> answer.status,
                     data |-> answer.body],
          requests |-> <<req>>]
    ELSE [raised |-> error_class, error |-> APIError(error_class, answer),
          value |-> None, requests |-> <<req>>]

\* A FlowsClient whose error_class is the base class of the API errors.
FlowsClient_error_class_base == "GlobusAPIError"

\* FlowsClient.error_class
FlowsClient_error_class == "FlowsAPIError"

CreateFlowFields ==
    {"title", "definition", "input_schema", "subtitle", "description",
     "flow_viewers", "flow_starters", "flow_administrators", "keywords"}

\* The body of create_flow: the fields that are not None, then
\* additional_fields over them.
create_flow_data(a) ==
    LET given == {k \in CreateFlowFields : a[k] # None}
        d0 == [k \in given |-> a[k]]
    IN  DictUpdate(d0, IF Truthy(a.additional_fields) THEN a.additional_fields
                       ELSE EmptyDict)

FlowsRequest(method, path, query_params, data) ==
    [method |-> method, path |-> path, query_params |-> query_params, data |-> data]

\* self.post("/flows", data=data)
create_flow(a, answer) ==
    BaseClient_request(FlowsClient_error_class,
        FlowsRequest("POST", "/flows", EmptyDict, create_flow_data(a)), answer)

\* update_flow that sends the fields not given as nulls.
update_flow_data_with_nulls(a) ==
    LET named == {"title", "definition", "input_schema", "subtitle", "description",
                  "flow_owner", "flow_viewers", "flow_starters",
                  "flow_administrators", "keywords"}
    IN  DictUpdate([k \in named |-> a[k]],
                   IF Truthy(a.additional_fields) THEN a.additional_fields
                   ELSE EmptyDict)

\* The body of update_flow: the fields that are not None, then
\* additional_fields over them.
update_flow_data(a) ==
    LET named == {"title", "definition", "input_schema", "subtitle", "description",
                  "flow_owner", "flow_viewers", "flow_starters",
                  "flow_administrators", "keywords"}
        given == {k \in named : a[k] # None}
    IN  DictUpdate([k \in given |-> a[k]],
                   IF Truthy(a.additional_fields) THEN a.additional_fields
                   ELSE EmptyDict)

\* self.put(f"/flows/{flow_id}", data=data)
update_flow(a, answer) ==
    BaseClient_request(FlowsClient_error_class,
        FlowsRequest("PUT", "/flows/" \o a.flow_id, EmptyDict, update_flow_data(a)),
        answer)

\* The body of update_run.
update_run_data(a) ==
    LET given == {k \in {"tags", "label", "run_monitors", "run_managers"} : a[k] # None}
    IN  DictUpdate([k \in given |-> a[k]],
                   IF Truthy(a.additional_fields) THEN a.additional_fields
                   ELSE EmptyDict)

\* self.put(f"/runs/{run_id}", data=data)
update_run(a, answer) ==
    BaseClient_request(FlowsClient_error_class,
        FlowsRequest("PUT", "/runs/" \o a.run_id, EmptyDict, update_run_data(a)),
        answer)

\* The body of SpecificFlowClient.run_flow.
run_flow_data(a) ==
    LET given == {k \in {"body", "tags", "label", "run_monitors", "run_managers"} :
                    a[k] # None}
    IN  DictUpdate([k \in given |-> a[k]],
                   IF Truthy(a.additional_fields) THEN a.additional_fields
                   ELSE EmptyDict)

\* SpecificFlowClient(flow_id).run_flow:
\* self.post(f"/flows/{self._flow_id}/run", data=data)
run_flow(flow_id, a, answer) ==
    BaseClient_request(FlowsClient_error_class,
        FlowsRequest("POST", "/flows/" \o flow_id \o "/run", EmptyDict, run_flow_data(a)),
        answer)

\* `if query_params is None: query_params = {}`
query_params_or_empty(query_params) ==
    IF query_params = None THEN EmptyDict ELSE query_params

\* self.get(f"/flows/{flow_id}", query_params=query_params)
get_flow(a, answer) ==
    BaseClient_request(FlowsClient_error_class,
        FlowsRequest("GET", "/flows/" \o a.flow_id,
                     query_params_or_empty(a.query_params), EmptyDict), answer)

\* self.delete(f"/flows/{flow_id}", query_params=query_params)
delete_flow(a, answer) ==
    BaseClient_request(FlowsClient_error_class,
        FlowsRequest("DELETE", "/flows/" \o a.flow_id,
                     query_params_or_empty(a.query_params), EmptyDict), answer)

\* A key the page body does not have.
Absent == [t |-> "absent"]

\* page.get(key): None for a key that is absent, and for a null.
dict_get(d, key) == IF d[key] = Absent THEN None ELSE d[key]

\* list_flows that does not pass its `marker` argument on.
list_flows_query_params_no_marker(a) ==
    LET q0 == query_params_or_empty(a.query_params)
        q1 == IF a.filter_role # None THEN DictSet(q0, "filter_role", a.filter_role)
              ELSE q0
        q2 == IF a.filter_fulltext # None
              THEN DictSet(q1, "filter_fulltext", a.filter_fulltext)
              ELSE q1
    IN  IF a.orderby = None THEN q2
        ELSE IF a.orderby.t = "str" THEN DictSet(q2, "orderby", a.orderby)
        ELSE DictSet(q2, "orderby", PyList(a.orderby.items))

\* The query parameters list_flows sends.
list_flows_query_params(a) ==
    LET q0 == query_params_or_empty(a.query_params)
        q1 == IF a.filter_role # None THEN DictSet(q0, "filter_role", a.filter_role)
              ELSE q0
        q2 == IF a.filter_fulltext # None
              THEN DictSet(q1, "filter_fulltext", a.filter_fulltext)
              ELSE q1
        q3 == IF a.orderby = None THEN q2
              ELSE IF a.orderby.t = "str" THEN DictSet(q2, "orderby", a.orderby)
              ELSE DictSet(q2, "orderby", PyList(a.orderby.items))
    IN  IF a.marker # None THEN DictSet(q3, "marker", a.marker) ELSE q3

\* list_flows that gives an empty last page when its request fails.
list_flows_failure_as_last_page(a, answer) ==
    LET r == BaseClient_request(FlowsClient_error_class,
                FlowsRequest("GET", "/flows", list_flows_query_params(a), EmptyDict),
                answer)
    IN  [r EXCEPT !.raised = "", !.error = None,
                  !.value = [t |-> "IterableFlowsResponse",
                             http |-> IF r.raised = "" THEN r.value
                                      ELSE [t |-> "GlobusHTTPResponse", http_status |-> 200,
                                            data |-> [flows |-> <<>>, marker |-> None]]]]

\* IterableFlowsResponse(self.get("/flows", query_params=query_params))
list_flows(a, answer) ==
    LET r == BaseClient_request(FlowsClient_error_class,
                FlowsRequest("GET", "/flows", list_flows_query_params(a), EmptyDict),
                answer)
    IN  IF r.raised # "" THEN r
        ELSE [r EXCEPT !.value = [t |-> "IterableFlowsResponse", http |-> r.value]]

\* list_runs that does not pass its `marker` argument on.
list_runs_query_params_no_marker(a) ==
    LET q0 == query_params_or_empty(a.query_params)
    IN  IF a.filter_flow_id # None
        THEN DictSet(q0, "filter_flow_id",
                     PyStr(StrJoin(",", safe_strseq_iter(a.filter_flow_id))))
        ELSE q0

\* The query parameters list_runs sends.
list_runs_query_params(a) ==
    LET q0 == query_params_or_empty(a.query_params)
        q1 == IF a.filter_flow_id # None
              THEN DictSet(q0, "filter_flow_id",
                           PyStr(StrJoin(",", safe_strseq_iter(a.filter_flow_id))))
              ELSE q0
    IN  IF a.marker # None THEN DictSet(q1, "marker", a.marker) ELSE q1

\* IterableRunsResponse(self.get("/runs", query_params=query_params))
list_runs(a, answer) ==
    LET r == BaseClient_request(FlowsClient_error_class,
                FlowsRequest("GET", "/runs", list_runs_query_params(a), EmptyDict),
                answer)
    IN  IF r.raised # "" THEN r
        ELSE [r EXCEPT !.value = [t |-> "IterableRunsResponse", http |-> r.value]]

\* The query parameters get_run_logs sends: limit, reverse_order and marker,
\* then the caller's query_params over them, without the entries that are
\* None. The dict is a new one.
get_run_logs_query_params(a) ==
    LET extra == IF Truthy(a.query_params) THEN a.query_params ELSE EmptyDict
        d == DictUpdate([limit |-> a.limit, reverse_order |-> a.reverse_order,
                         marker |-> a.marker], extra)
    IN  [k \in {x \in DOMAIN d : d[x] # None} |-> d[k]]

\* IterableRunLogsResponse(self.get(f"/runs/{run_id}/log", query_params=query_params))
get_run_logs(a, answer) ==
    LET r == BaseClient_request(FlowsClient_error_class,
                FlowsRequest("GET", "/runs/" \o a.run_id \o "/log",
                             get_run_logs_query_params(a), EmptyDict),
                answer)
    IN  IF r.raised # "" THEN r
        ELSE [r EXCEPT !.value = [t |-> "IterableRunLogsResponse", http |-> r.value]]

\* The listing methods that have a Paginator, and the key of the items in
\* their pages.
ItemsKey ==
    [list_flows |-> "flows", list_runs |-> "runs", get_run_logs |-> "entries"]

\* The query parameters `method` sends when called with the keyword arguments a.
method_query_params(method, a) ==
    IF method = "list_flows" THEN list_flows_query_params(a)
    ELSE IF method = "list_runs" THEN list_runs_query_params(a)
    ELSE get_run_logs_query_params(a)

\* method(**a)
method_call(method, a, answer) ==
    IF method = "list_flows" THEN list_flows(a, answer)
    ELSE IF method = "list_runs" THEN list_runs(a, answer)
    ELSE get_run_logs(a, answer)

\* The caller's keyword arguments after method(**a): list_flows and list_runs
\* write into a query_params dict that was passed, get_run_logs builds its own.
method_kwargs_after(method, a) ==
    IF method = "get_run_logs" \/ a.query_params = None THEN a
    ELSE [a EXCEPT !.query_params = method_query_params(method, a)]

\* ---------------------------------------------------- MarkerPaginator

\* client.paginated.list_flows(**client_kwargs): a Paginator that has not
\* fetched anything yet.
MarkerPaginator(method, items_key, client_kwargs) ==
    [method |-> method, items_key |-> items_key, client_kwargs |-> client_kwargs,
     marker |-> None, pc |-> "fetch", page |-> None, pos |-> 0, fetches |-> 0,
     yielded |-> <<>>, raised |-> ""]

\* The keyword arguments of the next call of the method: the marker of the
\* last page, once there is one, is passed as `marker`.
paginator_kwargs(p) ==
    IF p.marker # None THEN [p.client_kwargs EXCEPT !.marker = p.marker]
    ELSE p.client_kwargs

\* The Paginator after its call of the method has given r.
paginator_fetched(p, r) ==
    IF r.raised # ""
    THEN [p EXCEPT !.pc = "failed", !.raised = r.raised, !.fetches = @ + 1,
                   !.client_kwargs = method_kwargs_after(p.method, paginator_kwargs(p))]
    ELSE [p EXCEPT !.pc = "items", !.page = r.value.http.data, !.pos = 0,
                   !.fetches = @ + 1,
                   !.client_kwargs = method_kwargs_after(p.method, paginator_kwargs(p))]

\* The next item of the current page is yielded.
paginator_next_item(p) ==
    [p EXCEPT !.pos = @ + 1, !.yielded = Append(@, p.page[p.items_key][p.pos + 1])]

\* The current page is used up: its marker is read, and the iteration ends
\* when there is none.
paginator_end_of_page(p) ==
    LET m == dict_get(p.page, "marker")
    IN  [p EXCEPT !.marker = m, !.pc = IF m # None THEN "fetch" ELSE "done"]

\* ------------------------------------------------------- construction

\* AuthLoginClient(client_id=..., authorizer=...)
AuthLoginClient(client_id_arg, authorizer_arg) ==
    [kind |-> "AuthLoginClient",
     client_id |-> AuthLoginClient_client_id(client_id_arg),
     authorizer |-> authorizer_arg,
     current_oauth2_flow_manager |-> None]

\* ConfidentialAppAuthClient(client_id, client_secret)
ConfidentialAppAuthClient(client_id_arg) ==
    [AuthLoginClient(client_id_arg, "BasicAuthorizer")
        EXCEPT !.kind = "ConfidentialAppAuthClient"]

ClientIdArgs == {None, PyStr(""), PyStr("CID1"), PyUUID("CID1")}
AuthorizerArgs == {"None", "NullAuthorizer", "AccessTokenAuthorizer"}

NewClients ==
    {AuthLoginClient(i, z) : i \in ClientIdArgs, z \in AuthorizerArgs}
    \cup {ConfidentialAppAuthClient(i) : i \in {PyStr("CID1"), PyUUID("CID1")}}

Self(c) ==
    [kind |-> kind[c], client_id |-> client_id[c], authorizer |-> authorizer[c],
     current_oauth2_flow_manager |-> current_oauth2_flow_manager[c]]

IsConfidential(c) == kind[c] = "ConfidentialAppAuthClient"

NoFlowsCall ==
    [op |-> "", args |-> EmptyDict, answer |-> ConnectionFailure, raised |-> "",
     error |-> None, value |-> None, requests |-> <<>>]

\* A call of `op` on a FlowsClient has completed with `r`.
FlowsComplete(op, a, answer, r) ==
    flowsCall' = [op |-> op, args |-> a, answer |-> answer, raised |-> r.raised,
                  error |-> r.error, value |-> r.value, requests |-> r.requests]

NoCall ==
    [caller |-> "", client |-> "", op |-> "", args |-> EmptyDict, before |-> None,
     own |-> None, raised |-> "", value |-> None, requests |-> <<>>,
     fm_calls |-> <<>>, after |-> EmptyDict, transport |-> ""]

Idle == [op |-> "", args |-> EmptyDict]

\* The record of a caller's oauth2_start_flow call: the identity of the
\* manager it constructed and the arguments it was given.
Started(id, a) == [t |-> "started", id |-> id, args |-> a]

NotNormalized ==
    [param |-> "", val |-> None, out |-> EmptyDict, wrapped |-> EmptyDict, again |-> ""]

InitWith(objs, h) ==
    /\ kind = [c \in Clients |-> objs[c].kind]
    /\ client_id = [c \in Clients |-> objs[c].client_id]
    /\ authorizer = [c \in Clients |-> objs[c].authorizer]
    /\ current_oauth2_flow_manager =
            [c \in Clients |-> objs[c].current_oauth2_flow_manager]
    /\ holds = h
    /\ started = [k \in Callers |-> None]
    /\ returned = [k \in Callers |-> None]
    /\ pc = [k \in Callers |-> "idle"]
    /\ pending = [k \in Callers |-> Idle]
    /\ next_id = 1
    /\ lastCall = NoCall
    /\ exchanged = <<>>
    /\ normalized = NotNormalized
    /\ flowsCall = NoFlowsCall
    /\ source = [pages |-> <<>>, endless |-> FALSE]
    /\ pager = [MarkerPaginator("", "", EmptyDict) EXCEPT !.pc = "none"]
    /\ consumer = [kwargs |-> None, passed |-> None, invocations |-> 0, fetched |-> <<>>]
    /\ joined = [a |-> <<>>, b |-> None, out |-> <<>>]
    /\ tokens = [payload |-> None, shape |-> "", single |-> None, wrapped |-> None]

\* One caller, one client, used sequentially.
Init ==
    \E obj \in NewClients :
        InitWith([c \in Clients |-> obj], [k \in Callers |-> IF k = "A" THEN "c1" ELSE "c2"])

\* -------------------------------------------------------------- inputs

ScopeArgs == {None, PyStr("openid"), PyList(<<PyStr("openid"), PyStr("profile")>>)}

FlowArg(u, sc, st, rt) ==
    [redirect_uri |-> u, requested_scopes |-> sc, state |-> st, refresh_tokens |-> rt]

\* Four calls of oauth2_start_flow; any two differ in two arguments at least.
FlowArgs ==
    {FlowArg("https://example.org/cb", PyStr("openid"), "xyz", FALSE),
     FlowArg("https://example.org/cb", PyList(<<PyStr("openid"), PyStr("profile")>>),
             "_default", TRUE),
     FlowArg("https://example.org/other", PyStr("openid"), "_default", FALSE),
     FlowArg("https://example.org/other", None, "xyz", TRUE)}

IdentityArgs == {None, PyStr("id1"), PyList(<<PyStr("id1"), PyUUID("id2")>>)}
DomainArgs == {None, PyList(<<PyStr("example.org")>>)}
PolicyArgs == {None, PyUUID("pol1")}
PromptArgs == {None, PyStr("login")}
QueryParamArgs ==
    {None, EmptyDict, [extra |-> "1"],
     [session_required_identities |-> "old", session_required_single_domain |-> "old.org",
      session_required_policies |-> "oldpol", prompt |-> "none"]}

AuthorizeArgs ==
    [session_required_identities : IdentityArgs,
     session_required_single_domain : DomainArgs,
     session_required_policies : PolicyArgs,
     prompt : PromptArgs, query_params : QueryParamArgs]

AuthCodes == {"CODE1", "BADCODE"}
Tokens == {"tok123", "tok456"}

RefreshBodyParams ==
    {None, EmptyDict, [extra |-> "1"], [grant_type |-> "other"],
     [refresh_token |-> "rtX", extra |-> "1"]}
TokenBodyParams ==
    {None, EmptyDict, [extra |-> "1"], [client_id |-> "OTHER"], [token |-> "tokX"]}
FormDataArgs ==
    {[grant_type |-> "client_credentials"],
     [grant_type |-> "refresh_token", refresh_token |-> "rt1"]}
ResponseClasses == {"OAuthTokenResponse", "OAuthDependentTokenResponse"}
ResponseClassArgs == ResponseClasses \cup {NotGiven}
AdditionalParams ==
    {None, EmptyDict, [extra |-> "1"], [grant_type |-> "other", token |-> "tokX"],
     [access_type |-> "online"]}

\* ------------------------------------------------------------- actions

\* The outcome r of a handler together with what the transport did with the
\* handler's request ("" when the handler sent none).
Via(outcome, r) == r @@ [transport |-> IF r.requests = <<>> THEN "" ELSE outcome]

\* A call of `op` with arguments `a` by `caller` has completed with `r`.
Complete(caller, op, a, r, own) ==
    LET c == holds[caller]
    IN  /\ kind' = [kind EXCEPT ![c] = r.self.kind]
        /\ client_id' = [client_id EXCEPT ![c] = r.self.client_id]
        /\ authorizer' = [authorizer EXCEPT ![c] = r.self.authorizer]
        /\ current_oauth2_flow_manager' =
                [current_oauth2_flow_manager EXCEPT ![c] = r.self.current_oauth2_flow_manager]
        /\ lastCall' =
                [caller |-> caller, client |-> c, op |-> op, args |-> a,
                 before |-> Self(c), own |-> own, raised |-> r.raised,
                 value |-> r.value, requests |-> r.requests,
                 fm_calls |-> r.fm_calls, after |-> r.after,
                 transport |-> r.transport]
        /\ UNCHANGED utilVars

CallStep(caller, op, a, r) ==
    /\ pc[caller] = "idle"
    /\ Complete(caller, op, a, r, started[caller])
    /\ UNCHANGED <<holds, started, returned, pc, pending, next_id>>

Call(caller, op, a, r) == CallStep(caller, op, a, r) /\ UNCHANGED logVars

StartFlowStep(caller, a) ==
    LET c == holds[caller]
        r == Via("", oauth2_start_flow(Self(c), c, next_id, a))
    IN  /\ pc[caller] = "idle"
        /\ IsConfidential(c)
        /\ next_id <= MaxFlows
        /\ Complete(caller, "oauth2_start_flow", a, r, Started(next_id, a))
        /\ started' = [started EXCEPT ![caller] = Started(next_id, a)]
        /\ returned' = [returned EXCEPT ![caller] = r.value]
        /\ next_id' = next_id + 1
        /\ UNCHANGED <<holds, pc, pending>>

StartFlow(caller, a) == StartFlowStep(caller, a) /\ UNCHANGED logVars

GetAuthorizeUrl(caller, a) ==
    Call(caller, "oauth2_get_authorize_url", a,
         Via("", oauth2_get_authorize_url(Self(holds[caller]), a)))

ExchangeCodeForTokens(caller, a, outcome) ==
    Call(caller, "oauth2_exchange_code_for_tokens", a,
         Via(outcome, oauth2_exchange_code_for_tokens(Self(holds[caller]), a, outcome)))

RefreshToken(caller, a, outcome) ==
    Call(caller, "oauth2_refresh_token", a,
         Via(outcome, oauth2_refresh_token(Self(holds[caller]), a, outcome)))

ValidateToken(caller, a, outcome) ==
    Call(caller, "oauth2_validate_token", a,
         Via(outcome, oauth2_validate_token(Self(holds[caller]), a, outcome)))

RevokeToken(caller, a, outcome) ==
    Call(caller, "oauth2_revoke_token", a,
         Via(outcome, oauth2_revoke_token(Self(holds[caller]), a, outcome)))

Token(caller, a, outcome) ==
    Call(caller, "oauth2_token", a,
         Via(outcome, oauth2_token(Self(holds[caller]), a, outcome)))

Userinfo(caller, outcome) ==
    Call(caller, "oauth2_userinfo", EmptyDict,
         Via(outcome, oauth2_userinfo(Self(holds[caller]), EmptyDict, outcome)))

ClientCredentialsTokens(caller, a, outcome) ==
    /\ IsConfidential(holds[caller])
    /\ Call(caller, "oauth2_client_credentials_tokens", a,
            Via(outcome, oauth2_client_credentials_tokens(Self(holds[caller]), a, outcome)))

GetDependentTokens(caller, a, outcome) ==
    /\ IsConfidential(holds[caller])
    /\ Call(caller, "oauth2_get_dependent_tokens", a,
            Via(outcome, oauth2_get_dependent_tokens(Self(holds[caller]), a, outcome)))

TokenIntrospect(caller, a, outcome) ==
    /\ IsConfidential(holds[caller])
    /\ Call(caller, "oauth2_token_introspect", a,
            Via(outcome, oauth2_token_introspect(Self(holds[caller]), a, outcome)))

Next ==
    \E caller \in {"A"} :
        \/ \E a \in FlowArgs : StartFlow(caller, a)
        \/ \E a \in AuthorizeArgs : GetAuthorizeUrl(caller, a)
        \/ \E a \in [auth_code : AuthCodes], o \in TransportOutcomes :
                ExchangeCodeForTokens(caller, a, o)
        \/ \E a \in [refresh_token : {"rt1", "rt2"}, body_params : RefreshBodyParams],
              o \in TransportOutcomes : RefreshToken(caller, a, o)
        \/ \E a \in [token : Tokens, body_params : TokenBodyParams],
              o \in TransportOutcomes : ValidateToken(caller, a, o)
        \/ \E a \in [token : Tokens, body_params : TokenBodyParams],
              o \in TransportOutcomes : RevokeToken(caller, a, o)
        \/ \E a \in [form_data : FormDataArgs, body_params : RefreshBodyParams,
                     response_class : ResponseClassArgs],
              o \in TransportOutcomes : Token(caller, a, o)
        \/ \E o \in TransportOutcomes : Userinfo(caller, o)
        \/ \E a \in [requested_scopes : ScopeArgs],
              o \in TransportOutcomes : ClientCredentialsTokens(caller, a, o)
        \/ \E a \in [token : Tokens, refresh_tokens : BOOLEAN,
                     additional_params : AdditionalParams],
              o \in TransportOutcomes : GetDependentTokens(caller, a, o)
        \/ \E a \in [token : Tokens, include : {None, PyStr("identity_set")}],
              o \in TransportOutcomes : TokenIntrospect(caller, a, o)

Spec == Init /\ [][Next]_vars

\* ------------------------------------- two callers, interleaved steps

\* The flows the two callers start: each caller its own redirect URI, state
\* and scopes.
SharedFlowArgs(caller) ==
    IF caller = "A"
    THEN {FlowArg("https://a.example/cb", PyStr("openid"), "stateA", FALSE)}
    ELSE {FlowArg("https://b.example/cb", PyStr("profile"), "stateB", TRUE)}

\* Two confidential clients; the callers share one or hold one each.
InitShared ==
    \E h \in [Callers -> Clients] :
        /\ h["A"] = "c1"
        /\ InitWith([c \in Clients |-> ConfidentialAppAuthClient(PyStr("CID1"))], h)

\* oauth2_start_flow up to the assignment of the slot.
SharedStartAssign(caller, a) ==
    LET c == holds[caller]
        mgr == start_flow_manager(Self(c), c, next_id, a)
    IN  /\ pc[caller] = "idle"
        /\ next_id <= MaxFlows
        /\ current_oauth2_flow_manager' =
                [current_oauth2_flow_manager EXCEPT
                    ![c] = start_flow_assign(Self(c), mgr).current_oauth2_flow_manager]
        /\ started' = [started EXCEPT ![caller] = Started(next_id, a)]
        /\ next_id' = next_id + 1
        /\ pc' = [pc EXCEPT ![caller] = "start_return"]
        /\ pending' = [pending EXCEPT ![caller] = [op |-> "oauth2_start_flow", args |-> a]]
        /\ UNCHANGED <<clientVars, holds, returned, lastCall, logVars, utilVars>>

\* `return self.current_oauth2_flow_manager`: the slot is read again.
SharedStartReturn(caller) ==
    LET c == holds[caller]
    IN  /\ pc[caller] = "start_return"
        /\ Complete(caller, "oauth2_start_flow", pending[caller].args,
                    Via("", Outcome(Self(c), "", current_oauth2_flow_manager[c], <<>>,
                                    <<>>, EmptyDict)),
                    started[caller])
        /\ returned' = [returned EXCEPT ![caller] = current_oauth2_flow_manager[c]]
        /\ pc' = [pc EXCEPT ![caller] = "idle"]
        /\ pending' = [pending EXCEPT ![caller] = Idle]
        /\ UNCHANGED <<holds, started, next_id, logVars>>

\* oauth2_exchange_code_for_tokens up to its test of the slot.
SharedExchangeCheck(caller, a) ==
    LET c == holds[caller]
    IN  /\ pc[caller] = "idle"
        /\ IF NoCurrentFlow(Self(c))
           THEN /\ Complete(caller, "oauth2_exchange_code_for_tokens", a,
                            Via("", oauth2_exchange_code_for_tokens(Self(c), a, "ok")),
                            started[caller])
                /\ UNCHANGED <<pc, pending>>
           ELSE /\ pc' = [pc EXCEPT ![caller] = "exchange_call"]
                /\ pending' = [pending EXCEPT
                        ![caller] = [op |-> "oauth2_exchange_code_for_tokens", args |-> a]]
                /\ UNCHANGED <<clientVars, current_oauth2_flow_manager, lastCall, utilVars>>
        /\ UNCHANGED <<holds, started, returned, next_id, logVars>>

\* `self.current_oauth2_flow_manager.exchange_code_for_tokens(auth_code)`:
\* the slot is read again and the manager found there does the exchange.
SharedExchangeCall(caller, outcome) ==
    LET c == holds[caller]
    IN  /\ pc[caller] = "exchange_call"
        /\ Complete(caller, "oauth2_exchange_code_for_tokens", pending[caller].args,
                    Via(outcome, oauth2_exchange_code_for_tokens(Self(c), pending[caller].args,
                                                                 outcome)),
                    started[caller])
        /\ pc' = [pc EXCEPT ![caller] = "idle"]
        /\ pending' = [pending EXCEPT ![caller] = Idle]
        /\ UNCHANGED <<holds, started, returned, next_id, logVars>>

NextShared ==
    \E caller \in Callers :
        \/ \E a \in SharedFlowArgs(caller) : SharedStartAssign(caller, a)
        \/ SharedStartReturn(caller)
        \/ \E a \in [auth_code : AuthCodes] : SharedExchangeCheck(caller, a)
        \/ \E o \in TransportOutcomes : SharedExchangeCall(caller, o)

SpecShared == InitShared /\ [][NextShared]_vars

\* ------------------------------- normalisation of session requirements

\* Longest collection passed as a session requirement.
MaxJoinLen == 2

JoinIds == {"id1", "id2", "id3"}
JoinScalars == {PyStr(i) : i \in JoinIds} \cup {PyUUID(i) : i \in JoinIds}
JoinLists ==
    {PyList(xs) : xs \in UNION {[1..n -> JoinScalars] : n \in 0..MaxJoinLen}}
JoinInputs == {None} \cup JoinScalars \cup JoinLists

SessionParams ==
    {"session_required_identities", "session_required_single_domain",
     "session_required_policies"}

\* The keyword arguments of oauth2_get_authorize_url with only `param` given.
OnlyParam(param, val) ==
    [session_required_identities |->
        IF param = "session_required_identities" THEN val ELSE None,
     session_required_single_domain |->
        IF param = "session_required_single_domain" THEN val ELSE None,
     session_required_policies |->
        IF param = "session_required_policies" THEN val ELSE None,
     prompt |-> None, query_params |-> None]

InitJoin ==
    /\ \E obj \in {ConfidentialAppAuthClient(PyStr("CID1"))} :
        InitWith([c \in Clients |-> obj], [k \in Callers |-> "c1"])

\* The query parameters oauth2_get_authorize_url builds when given `val` as
\* `param`: as given (out), a single identifier wrapped into a one-element
\* collection (wrapped), and commajoin applied to its own result (again).
Normalize(param, val) ==
    /\ normalized' =
        [param |-> param, val |-> val,
         out |-> authorize_query_params(OnlyParam(param, val)),
         wrapped |-> IF val.t \in {"str", "uuid"}
                     THEN authorize_query_params(OnlyParam(param, PyList(<<val>>)))
                     ELSE EmptyDict,
         again |-> IF val = None THEN "" ELSE commajoin(PyStr(commajoin(val)))]
    /\ UNCHANGED <<loginVars, flowsVars, joined, tokens>>

NextJoin == \E param \in SessionParams, val \in JoinInputs : Normalize(param, val)

SpecJoin == InitJoin /\ [][NextJoin]_vars

\* ------------------------------------ repeated exchanges of one flow

\* Exchanges recorded after one oauth2_start_flow.
MaxExchanges == 3

InitExchange ==
    InitWith([c \in Clients |-> ConfidentialAppAuthClient(PyStr("CID1"))],
             [k \in Callers |-> "c1"])

\* oauth2_start_flow; the record of exchanges starts again.
ExchangeStart(caller, a) ==
    /\ StartFlowStep(caller, a)
    /\ exchanged' = <<>>

\* One more oauth2_exchange_code_for_tokens, recorded.
ExchangeAgain(caller, a, outcome) ==
    LET r == Via(outcome, oauth2_exchange_code_for_tokens(Self(holds[caller]), a, outcome))
    IN  /\ Len(exchanged) < MaxExchanges
        /\ CallStep(caller, "oauth2_exchange_code_for_tokens", a, r)
        /\ exchanged' = Append(exchanged,
                [auth_code |-> a.auth_code, raised |-> r.raised,
                 requests |-> r.requests, fm_calls |-> r.fm_calls])

NextExchange ==
    \E caller \in {"A"} :
        \/ \E a \in FlowArgs : ExchangeStart(caller, a)
        \/ \E a \in [auth_code : AuthCodes], o \in TransportOutcomes :
                ExchangeAgain(caller, a, o)

SpecExchange == InitExchange /\ [][NextExchange]_vars

\* ---------------------------------------------- calls of a FlowsClient

\* Messages in one error response.
MaxMessages == 2

BadPrincipal1 ==
    "Unrecognized principal string: \"ae341a98-d274-11e5-b888-dbae3a8ba545\". Allowed principal types in role \"FlowAdministrator\": [<AuthGroupUrn>, <AuthIdentityUrn>]"
BadPrincipal2 ==
    "Unrecognized principal string: \"4fab4345-6d20-43a0-9a25-16b2e3bbe765\". Allowed principal types in role \"FlowAdministrator\": [<AuthGroupUrn>, <AuthIdentityUrn>]"

ServerMessages == {BadPrincipal1, BadPrincipal2}
MessageLists == UNION {[1..n -> ServerMessages] : n \in 0..MaxMessages}

ErrorStatuses == {<<422, "UNPROCESSABLE_ENTITY">>, <<404, "NOT_FOUND">>}

FlowDocument == [title |-> PyStr("Multi Step Transfer")]

ServerAnswers ==
    {ConnectionFailure}
    \cup {ServerResponse(s, FlowDocument) : s \in {200}}
    \cup {ServerResponse(e[1], ErrorBody(e[2], ms)) : e \in ErrorStatuses, ms \in MessageLists}

Json(name) == [t |-> "json", name |-> name]

CreateFlowArgs ==
    [title : {PyStr("Multi Step Transfer")},
     definition : {Json("definition")},
     input_schema : {Json("input_schema")},
     subtitle : {None, PyStr("a subtitle")},
     description : {None},
     flow_viewers : {None},
     flow_starters : {None},
     flow_administrators :
        {None,
         PyList(<<PyStr("ae341a98-d274-11e5-b888-dbae3a8ba545"),
                  PyStr("4fab4345-6d20-43a0-9a25-16b2e3bbe765")>>),
         PyList(<<PyStr("urn:globus:auth:identity:b44bddda-d274-11e5-978a-9f15789a8150")>>)},
     keywords : {PyList(<<>>)},
     additional_fields :
        {None, EmptyDict, [extra |-> PyStr("1")], [title |-> PyStr("other title")]}]

FlowIdArgs ==
    [flow_id : {"flow1", "flow2"}, query_params : {None, [extra |-> "1"]}]

InitFlows ==
    InitWith([c \in Clients |-> ConfidentialAppAuthClient(PyStr("CID1"))],
             [k \in Callers |-> "c1"])

CreateFlow(a, answer) ==
    /\ FlowsComplete("create_flow", a, answer, create_flow(a, answer))
    /\ UNCHANGED <<loginVars, pureVars, source, pager, consumer>>

GetFlow(a, answer) ==
    /\ FlowsComplete("get_flow", a, answer, get_flow(a, answer))
    /\ UNCHANGED <<loginVars, pureVars, source, pager, consumer>>

DeleteFlow(a, answer) ==
    /\ FlowsComplete("delete_flow", a, answer, delete_flow(a, answer))
    /\ UNCHANGED <<loginVars, pureVars, source, pager, consumer>>

NextFlows ==
    \E answer \in ServerAnswers :
        \/ \E a \in CreateFlowArgs : CreateFlow(a, answer)
        \/ \E a \in FlowIdArgs : GetFlow(a, answer)
        \/ \E a \in FlowIdArgs : DeleteFlow(a, answer)

SpecFlows == InitFlows /\ [][NextFlows]_vars

\* ------------------------------------------- iteration of a listing

\* Pages of a listing, and items of one page.
MaxPages == 3
MaxPageLen == 2

\* Calls of the method one Paginator makes.
MaxFetches == MaxPages + 1

\* The marker the service gives for its page i.
MarkerFor(i) == "m" \o ToString(i)

\* A listing of k pages with sizes[i] items on page i, under items_key. Each
\* page but the last has the marker of the page after it; the last page has
\* `last` for its marker: absent or null, or (an endless listing) the marker
\* of page 1.
Listing(items_key, sizes, last) ==
    [pages |-> [i \in 1..Len(sizes) |->
                  (items_key :> [j \in 1..sizes[i] |-> [page |-> i, n |-> j]])
                  @@ [marker |-> IF i < Len(sizes) THEN PyStr(MarkerFor(i + 1))
                                 ELSE last]],
     endless |-> last \notin {Absent, None}]

\* A page is empty, has one item, or is full.
PageSizes == {0, 1, MaxPageLen}

Listings(items_key) ==
    {Listing(items_key, sizes, last) :
        sizes \in UNION {[1..k -> PageSizes] : k \in 1..MaxPages},
        last \in {Absent, None, PyStr(MarkerFor(1))}}

\* The page the service returns for the query parameters of a request: the
\* page the marker stands for, the first page when there is no marker.
ServePage(src, query_params) ==
    IF "marker" \in DOMAIN query_params
    THEN src.pages[CHOOSE i \in 1..MaxPages : MarkerFor(i) = query_params.marker.s]
    ELSE src.pages[1]

FetchOutcomes == {"ok", "error", "NetworkError"}

ServerAnswer(outcome, page) ==
    IF outcome = "ok" THEN ServerResponse(200, page)
    ELSE IF outcome = "error" THEN ServerResponse(500, ErrorBody("INTERNAL_ERROR", <<>>))
    ELSE ConnectionFailure

ListFlowsArgs ==
    [filter_role : {PyStr("flow_owner")}, filter_fulltext : {None},
     orderby : {None}, marker : {None},
     query_params : {None, [extra |-> PyStr("1")]}]

ListRunsArgs ==
    [filter_flow_id : {PyList(<<PyUUID("f1"), PyStr("f2")>>)}, marker : {None},
     query_params : {None}]

RunLogsArgs ==
    [run_id : {"run1"}, limit : {[t |-> "int", n |-> 10]}, reverse_order : {None},
     marker : {None}, query_params : {None}]

\* Keyword arguments of the listing methods, none with a marker.
ListingArgs ==
    [list_flows |-> ListFlowsArgs, list_runs |-> ListRunsArgs,
     get_run_logs |-> RunLogsArgs]

\* client.paginated.<method>(**a): a new Paginator, and the listing the
\* service holds while it is iterated.
NewPaginator(method, a, src) ==
    /\ pager.pc = "none"
    /\ pager' = MarkerPaginator(method, ItemsKey[method], a)
    /\ source' = src
    /\ consumer' = [kwargs |-> a, passed |-> a, invocations |-> 1, fetched |-> <<>>]
    /\ UNCHANGED <<loginVars, pureVars, flowsCall>>

\* The Paginator calls the method for one more page. The consumer keeps, of
\* each call, the query parameters of its request, what the service did, what
\* the call raised, the page it gave, and the Paginator's marker and how many
\* items had been yielded when it was made.
FetchPage(outcome) ==
    LET kwargs == paginator_kwargs(pager)
        req == method_call(pager.method, kwargs, ConnectionFailure).requests[1]
        answer == ServerAnswer(outcome, ServePage(source, req.query_params))
        r == method_call(pager.method, kwargs, answer)
    IN  /\ pager.pc = "fetch"
        /\ pager.fetches < MaxFetches
        /\ pager' = paginator_fetched(pager, r)
        /\ FlowsComplete(pager.method, kwargs, answer, r)
        /\ consumer' = [consumer EXCEPT !.fetched = Append(@,
                [query_params |-> req.query_params, raised |-> r.raised,
                 page |-> IF r.raised = "" THEN r.value.http.data ELSE None,
                 at |-> Len(pager.yielded), cursor |-> pager.marker,
                 outcome |-> outcome])]
        /\ UNCHANGED <<loginVars, pureVars, source>>

NextItem ==
    /\ pager.pc = "items"
    /\ pager.pos < Len(pager.page[pager.items_key])
    /\ pager' = paginator_next_item(pager)
    /\ UNCHANGED <<loginVars, pureVars, flowsCall, source, consumer>>

EndOfPage ==
    /\ pager.pc = "items"
    /\ pager.pos = Len(pager.page[pager.items_key])
    /\ pager' = paginator_end_of_page(pager)
    /\ UNCHANGED <<loginVars, pureVars, flowsCall, source, consumer>>

NextPaging ==
    \/ /\ pager.pc = "none"
       /\ \E method \in DOMAIN ListingArgs :
            \E a \in ListingArgs[method], src \in Listings(ItemsKey[method]) :
                NewPaginator(method, a, src)
    \/ \E o \in FetchOutcomes : FetchPage(o)
    \/ NextItem
    \/ EndOfPage

\* The consumer goes on iterating while the Paginator has more to give.
SpecPaging == InitFlows /\ [][NextPaging]_vars /\ WF_vars(NextPaging)

\* ------------------------------- listings started with a marker, again

\* Invocations of one listing method by one caller.
MaxInvocations == 2

\* Keyword arguments with a marker, passed as `marker` and inside
\* query_params.
MarkerArgs == {None, PyStr(MarkerFor(MaxPages))}
QueryParamsArgs == {None, [extra |-> PyStr("1")], [marker |-> PyStr(MarkerFor(2))]}

MarkedArgs ==
    [list_flows |->
        [filter_role : {None}, filter_fulltext : {None}, orderby : {PyStr("title")},
         marker : MarkerArgs, query_params : QueryParamsArgs],
     list_runs |->
        [filter_flow_id : {None}, marker : MarkerArgs, query_params : QueryParamsArgs],
     get_run_logs |->
        [run_id : {"run1"}, limit : {None}, reverse_order : {None},
         marker : MarkerArgs, query_params : QueryParamsArgs]]

\* Listings of MaxPages pages of one item.
PlainListings(items_key) ==
    {Listing(items_key, [i \in 1..MaxPages |-> 1], last) : last \in {Absent, None}}

\* The consumer stops iterating before the end.
Abandon ==
    /\ pager.pc \in {"fetch", "items"}
    /\ pager' = [pager EXCEPT !.pc = "abandoned"]
    /\ UNCHANGED <<loginVars, pureVars, flowsCall, source, consumer>>

\* The caller invokes the listing method again when its Paginator is of no
\* more use, with the arguments of the first invocation: the same values in
\* new objects, or (reuse) the very query_params dict it passed before.
ListAgain(reuse) ==
    LET a == IF reuse
             THEN [consumer.kwargs EXCEPT
                        !.query_params = pager.client_kwargs.query_params]
             ELSE consumer.kwargs
    IN  /\ pager.pc \in {"done", "failed", "abandoned"}
        /\ consumer.invocations < MaxInvocations
        /\ pager' = MarkerPaginator(pager.method, pager.items_key, a)
        /\ consumer' = [consumer EXCEPT !.passed = a, !.invocations = @ + 1,
                                        !.fetched = <<>>]
        /\ UNCHANGED <<loginVars, pureVars, flowsCall, source>>

NextListing ==
    \/ /\ pager.pc = "none"
       /\ \E method \in DOMAIN MarkedArgs :
            \E a \in MarkedArgs[method], src \in PlainListings(ItemsKey[method]) :
                NewPaginator(method, a, src)
    \/ \E o \in FetchOutcomes : FetchPage(o)
    \/ NextItem
    \/ EndOfPage
    \/ Abandon
    \/ \E reuse \in BOOLEAN : ListAgain(reuse)

SpecListing == InitFlows /\ [][NextListing]_vars

\* ------------------------------------------- request bodies of the Flows client

OneKeyword == PyList(<<PyStr("transfer")>>)

UpdateFlowArgs ==
    [flow_id : {"flow1"}, title : {None, PyStr("Multi Step Transfer")},
     definition : {None}, input_schema : {None}, subtitle : {None},
     description : {None}, flow_owner : {None}, flow_viewers : {None},
     flow_starters : {None}, flow_administrators : {None},
     keywords : {None, OneKeyword},
     additional_fields :
        {None, EmptyDict, [extra |-> PyStr("1")], [title |-> PyStr("other title")]}]

UpdateRunArgs ==
    [run_id : {"run1"}, label : {None, PyStr("a label")}, tags : {None, OneKeyword},
     run_monitors : {None}, run_managers : {None},
     additional_fields : {None, [label |-> PyStr("other label")]}]

RunFlowArgs ==
    [body : {Json("body")}, label : {None, PyStr("a label")}, tags : {None, OneKeyword},
     run_monitors : {None}, run_managers : {None},
     additional_fields :
        {None, [label |-> PyStr("other label")], [body |-> Json("other body")]}]

\* The service accepts the request, or the connection fails.
BodyAnswers == {ServerResponse(200, FlowDocument), ConnectionFailure}

UpdateFlow(a, answer) ==
    /\ FlowsComplete("update_flow", a, answer, update_flow(a, answer))
    /\ UNCHANGED <<loginVars, pureVars, source, pager, consumer>>

UpdateRun(a, answer) ==
    /\ FlowsComplete("update_run", a, answer, update_run(a, answer))
    /\ UNCHANGED <<loginVars, pureVars, source, pager, consumer>>

RunFlow(a, answer) ==
    /\ FlowsComplete("run_flow", a, answer, run_flow("flow1", a, answer))
    /\ UNCHANGED <<loginVars, pureVars, source, pager, consumer>>

NextBodies ==
    \E answer \in BodyAnswers :
        \/ \E a \in CreateFlowArgs : CreateFlow(a, answer)
        \/ \E a \in UpdateFlowArgs : UpdateFlow(a, answer)
        \/ \E a \in UpdateRunArgs : UpdateRun(a, answer)
        \/ \E a \in RunFlowArgs : RunFlow(a, answer)

SpecBodies == InitFlows /\ [][NextBodies]_vars

\* ------------------------------------------------- joining path components

\* Longest path component joined.
MaxSlashLen == 3

PathChars == {"a", "/"}
Paths == UNION {[1..n -> PathChars] : n \in 0..MaxSlashLen}

SlashJoin(a, b) ==
    /\ joined' = [a |-> a, b |-> b, out |-> slash_join(a, b)]
    /\ UNCHANGED <<loginVars, flowsVars, normalized, tokens>>

NextSlash ==
    \E a \in Paths, b \in {None} \cup {PyChars(cs) : cs \in Paths} : SlashJoin(a, b)

SpecSlash == InitFlows /\ [][NextSlash]_vars

\* ------------------------------------------------- token payloads decoded

ResourceServers == {"transfer.api.globus.org", "auth.globus.org"}

\* One token as the service writes it, with and without a refresh token.
TokenObjects ==
    LET plain == [resource_server : ResourceServers, access_token : {"AT1", "AT2"},
                  scope : {"openid", "urn:globus:auth:scope:transfer.api.globus.org:all"},
                  token_type : {"Bearer"}, expires_in : {3600, 172800}]
    IN  plain \cup {t @@ [refresh_token |-> "RT1"] : t \in plain}

\* The payload of a token response for one resource server: the token object
\* at the top level.
SinglePayload(tok) == tok

\* The same token in the shape of a response for several resource servers:
\* at the top level with an empty other_tokens, or inside other_tokens.
WrappedShapes == {"top", "inside"}
WrappedPayload(shape, tok) ==
    IF shape = "top" THEN tok @@ [other_tokens |-> <<>>]
    ELSE [state |-> "_default", other_tokens |-> <<tok>>]

\* oauth2_token returns for the single payload and for the wrapped one; both
\* objects are made at the same reading of the clock.
DecodeTokens(tok, shape, now) ==
    LET form == [grant_type |-> "client_credentials"]
        r == oauth2_token_call(form, None, response_class_or_default(NotGiven), "ok")
    IN  /\ tokens' = [payload |-> tok, shape |-> shape,
                      single |-> response_by_resource_server(
                                    r.value, SinglePayload(tok), now),
                      wrapped |-> response_by_resource_server(
                                    r.value, WrappedPayload(shape, tok), now)]
        /\ UNCHANGED <<loginVars, flowsVars, normalized, joined>>

NextTokens ==
    \E tok \in TokenObjects, shape \in WrappedShapes, now \in {1700000000, 1700000060} :
        DecodeTokens(tok, shape, now)

SpecTokens == InitFlows /\ [][NextTokens]_vars

\* =============================================================== claims

UsageError == "GlobusSDKUsageError"
FlowManagerType == "GlobusAuthorizationCodeFlowManager"

\* No oauth2_start_flow has been called on any client.
NeverStarted == next_id = 1

\* C1: on a client on which oauth2_start_flow was never called,
\* oauth2_get_authorize_url fails, whatever its arguments, with
\* GlobusSDKUsageError (no transport or API error), calls no flow manager
\* and sends no request.
C1_AuthorizeUrlBeforeStart ==
    (lastCall.op = "oauth2_get_authorize_url" /\ NeverStarted) =>
        /\ lastCall.raised = UsageError
        /\ lastCall.raised \notin TransportOutcomes
        /\ lastCall.fm_calls = <<>>
        /\ lastCall.requests = <<>>

C1_Witness ==
    /\ lastCall.op = "oauth2_get_authorize_url"
    /\ NeverStarted
    /\ lastCall.raised = UsageError
    /\ lastCall.args.session_required_identities # None
    /\ lastCall.args.session_required_policies # None
    /\ lastCall.args.prompt # None
    /\ lastCall.args.query_params # None

\* C2: on a client on which oauth2_start_flow was never called,
\* oauth2_exchange_code_for_tokens fails for every auth_code with
\* GlobusSDKUsageError, sends no request and leaves the client as it was.
C2_ExchangeBeforeStart ==
    (lastCall.op = "oauth2_exchange_code_for_tokens" /\ NeverStarted) =>
        /\ lastCall.raised = UsageError
        /\ lastCall.requests = <<>>
        /\ lastCall.fm_calls = <<>>
        /\ Self(lastCall.client) = lastCall.before

C2_Witness ==
    /\ lastCall.op = "oauth2_exchange_code_for_tokens"
    /\ NeverStarted
    /\ lastCall.raised = UsageError
    /\ lastCall.args.auth_code = "BADCODE"

\* C3: after oauth2_start_flow on a confidential client the slot holds the
\* manager the call returned, which is newly constructed from the call's
\* redirect_uri, requested_scopes, state and refresh_tokens; a manager that
\* was current is replaced, nothing is raised and no request is sent.
C3_StartFlowBindsNewManager ==
    lastCall.op = "oauth2_start_flow" =>
        /\ lastCall.raised = ""
        /\ lastCall.requests = <<>>
        /\ current_oauth2_flow_manager[lastCall.client] = lastCall.value
        /\ lastCall.value.t = FlowManagerType
        /\ lastCall.value.id = lastCall.own.id
        /\ lastCall.value.id = next_id - 1
        /\ lastCall.before.current_oauth2_flow_manager # None =>
                lastCall.before.current_oauth2_flow_manager.id < lastCall.value.id
        /\ lastCall.value.redirect_uri = lastCall.args.redirect_uri
        /\ lastCall.value.requested_scopes = lastCall.args.requested_scopes
        /\ lastCall.value.state = lastCall.args.state
        /\ lastCall.value.refresh_tokens = lastCall.args.refresh_tokens

C3_Witness ==
    /\ lastCall.op = "oauth2_start_flow"
    /\ lastCall.before.current_oauth2_flow_manager # None
    /\ lastCall.before.current_oauth2_flow_manager.state # lastCall.args.state
    /\ current_oauth2_flow_manager[lastCall.client].state = lastCall.args.state

\* The slot of a client is empty exactly when no caller has started a flow
\* on it, and the two flow operations raise the usage error exactly when
\* their caller had started none.
C4_UsageErrorIffNotStarted ==
    /\ \A c \in Clients :
        (current_oauth2_flow_manager[c] = None)
            <=> (\A k \in Callers : holds[k] = c => started[k] = None)
    /\ lastCall.op \in {"oauth2_get_authorize_url", "oauth2_exchange_code_for_tokens"} =>
        (lastCall.raised = UsageError <=> lastCall.own = None)

\* C4: oauth2_get_authorize_url and oauth2_exchange_code_for_tokens raise the
\* usage error if and only if no oauth2_start_flow has completed on the
\* client; the slot is empty at construction, and once a manager is bound no
\* operation empties it.
C4_FlowBoundOnceStarted ==
    /\ []C4_UsageErrorIffNotStarted
    /\ [][\A c \in Clients : current_oauth2_flow_manager[c] # None
                                => current_oauth2_flow_manager'[c] # None]_vars

C4_Witness ==
    /\ lastCall.op = "oauth2_exchange_code_for_tokens"
    /\ lastCall.raised = ""
    /\ lastCall.own # None
    /\ current_oauth2_flow_manager[lastCall.client] # None

NonStartOps ==
    {"oauth2_get_authorize_url", "oauth2_exchange_code_for_tokens",
     "oauth2_refresh_token", "oauth2_validate_token", "oauth2_revoke_token",
     "oauth2_token", "oauth2_userinfo", "oauth2_client_credentials_tokens",
     "oauth2_get_dependent_tokens", "oauth2_token_introspect"}

\* C5: every operation other than oauth2_start_flow, returning or raising,
\* leaves current_oauth2_flow_manager and client_id as they were.
C5_OnlyStartFlowWritesSlot ==
    lastCall.op \in NonStartOps =>
        /\ current_oauth2_flow_manager[lastCall.client]
                = lastCall.before.current_oauth2_flow_manager
        /\ client_id[lastCall.client] = lastCall.before.client_id

C5_Witness ==
    /\ lastCall.op = "oauth2_revoke_token"
    /\ lastCall.raised = "NetworkError"
    /\ lastCall.before.current_oauth2_flow_manager # None
    /\ current_oauth2_flow_manager[lastCall.client] # None

\* The manager in the slot of a client is the one constructed by the latest
\* oauth2_start_flow on that client, whoever called it.
LastWriterWins ==
    \A c \in Clients :
        current_oauth2_flow_manager[c] # None =>
            \E k \in Callers :
                /\ holds[k] = c
                /\ started[k] # None
                /\ started[k].id = current_oauth2_flow_manager[c].id
                /\ started[k].args.redirect_uri = current_oauth2_flow_manager[c].redirect_uri
                /\ started[k].args.state = current_oauth2_flow_manager[c].state
                /\ \A k2 \in Callers :
                    (holds[k2] = c /\ started[k2] # None) =>
                        started[k2].id <= current_oauth2_flow_manager[c].id

\* The last call was an exchange carried out by a manager that its caller's
\* own oauth2_start_flow did not construct.
WrongFlowExchange ==
    /\ lastCall.op = "oauth2_exchange_code_for_tokens"
    /\ lastCall.fm_calls # <<>>
    /\ \/ lastCall.own = None
       \/ lastCall.fm_calls[1].id # lastCall.own.id

\* C6: with interleaved callers the slot holds the manager of the
\* oauth2_start_flow that wrote last, and an exchange is carried out by
\* another caller's manager only when the two callers share one client.
C6_WrongFlowOnlyWhenShared ==
    /\ LastWriterWins
    /\ WrongFlowExchange => holds["A"] = holds["B"]

C6_Witness ==
    /\ WrongFlowExchange
    /\ lastCall.caller = "A"
    /\ lastCall.own # None
    /\ lastCall.own.args.redirect_uri = "https://a.example/cb"
    /\ started["B"] # None
    /\ lastCall.fm_calls[1].id = started["B"].id
    /\ current_oauth2_flow_manager[lastCall.client].id = started["B"].id
    /\ current_oauth2_flow_manager[lastCall.client].redirect_uri = "https://b.example/cb"
    /\ current_oauth2_flow_manager[lastCall.client].state = "stateB"

\* C7: after any sequence of oauth2_start_flow calls oauth2_get_authorize_url
\* calls the manager of the most recent one and returns a URL whose query has
\* client_id, redirect_uri and response_type=code, and the state and scope of
\* that most recent call.
C7_AuthorizeUrlOfLatestFlow ==
    (lastCall.op = "oauth2_get_authorize_url" /\ lastCall.raised = "") =>
        /\ lastCall.own # None
        /\ lastCall.own.id = next_id - 1
        /\ lastCall.fm_calls = <<[id |-> lastCall.own.id, method |-> "get_authorize_url"]>>
        /\ lastCall.value.t = "url"
        /\ {"client_id", "redirect_uri", "response_type", "state", "scope"}
                \subseteq DOMAIN lastCall.value.query
        /\ lastCall.value.query.client_id = client_id[lastCall.client].s
        /\ lastCall.value.query.redirect_uri = lastCall.own.args.redirect_uri
        /\ lastCall.value.query.response_type = "code"
        /\ lastCall.value.query.state = lastCall.own.args.state
        /\ lastCall.value.query.scope
                = stringify_requested_scopes(lastCall.own.args.requested_scopes)
        /\ lastCall.own.args.requested_scopes = PyStr("openid") =>
                lastCall.value.query.scope = "openid"

C7_Witness ==
    /\ lastCall.op = "oauth2_get_authorize_url"
    /\ lastCall.raised = ""
    /\ lastCall.own.id > 1
    /\ lastCall.value.query.state = "xyz"
    /\ lastCall.value.query.scope = "openid"
    /\ lastCall.value.query.redirect_uri = "https://example.org/cb"

\* C8: oauth2_get_authorize_url sends no request and changes neither the
\* client, nor the flow manager, nor any argument of the caller, the
\* query_params mapping included.
C8_AuthorizeUrlHasNoSideEffect ==
    lastCall.op = "oauth2_get_authorize_url" =>
        /\ lastCall.requests = <<>>
        /\ Self(lastCall.client) = lastCall.before
        /\ lastCall.after.query_params = lastCall.args.query_params

\* The members of a collection joined by commas, built from the left.
RECURSIVE CommaJoined(_)
CommaJoined(items) ==
    IF Len(items) = 0 THEN ""
    ELSE IF Len(items) = 1 THEN Str(items[1])
    ELSE CommaJoined(SubSeq(items, 1, Len(items) - 1)) \o "," \o Str(items[Len(items)])

\* C9: for each session requirement, a single identifier and the one-element
\* collection of it give the same query parameter, a collection gives its
\* members joined by commas in order, commajoin of its own result is that
\* result, and None adds no key.
C9_SessionRequirementNormalized ==
    normalized.param # "" =>
        LET p == normalized.param
            v == normalized.val
        IN  /\ v = None => normalized.out = EmptyDict
            /\ v # None =>
                /\ DOMAIN normalized.out = {p}
                /\ normalized.again = normalized.out[p]
            /\ v.t \in {"str", "uuid"} =>
                /\ normalized.out = normalized.wrapped
                /\ normalized.out[p] = Str(v)
            /\ v.t = "list" => normalized.out[p] = CommaJoined(v.items)

C9_Witness ==
    /\ normalized.param = "session_required_policies"
    /\ normalized.val = PyList(<<PyStr("id1"), PyUUID("id2")>>)
    /\ normalized.out = [session_required_policies |-> "id1,id2"]
    /\ normalized.again = "id1,id2"

\* C10: oauth2_refresh_token sends exactly one form-encoded POST to
\* /v2/oauth2/token; its body has refresh_token and grant_type=refresh_token
\* and every key of body_params with the caller's value, which wins where it
\* collides with a computed field.
C10_RefreshTokenBody ==
    lastCall.op = "oauth2_refresh_token" =>
        LET bp == IF lastCall.args.body_params = None THEN EmptyDict
                  ELSE lastCall.args.body_params
        IN  /\ Len(lastCall.requests) = 1
            /\ lastCall.requests[1].method = "POST"
            /\ lastCall.requests[1].path = "/v2/oauth2/token"
            /\ lastCall.requests[1].encoding = "form"
            /\ DOMAIN lastCall.requests[1].data
                    = {"refresh_token", "grant_type"} \cup DOMAIN bp
            /\ \A k \in DOMAIN bp : lastCall.requests[1].data[k] = bp[k]
            /\ "grant_type" \notin DOMAIN bp =>
                    lastCall.requests[1].data.grant_type = "refresh_token"
            /\ "refresh_token" \notin DOMAIN bp =>
                    lastCall.requests[1].data.refresh_token = lastCall.args.refresh_token

C10_Witness ==
    /\ lastCall.op = "oauth2_refresh_token"
    /\ lastCall.args.refresh_token = "rt1"
    /\ lastCall.args.body_params = [refresh_token |-> "rtX", extra |-> "1"]
    /\ lastCall.requests[1].data
            = [refresh_token |-> "rtX", grant_type |-> "refresh_token", extra |-> "1"]

\* The client of the last call had no authorizer, or a NullAuthorizer.
Unauthenticated == lastCall.before.authorizer \in {"None", "NullAuthorizer"}

\* The client of the last call had a client_id other than the empty string.
HasClientId == lastCall.before.client_id # None /\ lastCall.before.client_id.s # ""

\* The last call was given no body_params (None, or an empty mapping).
NoBodyParams == lastCall.args.body_params \in {None, EmptyDict}

\* C11: oauth2_validate_token without body_params sends a body that has
\* client_id (the client's own) if and only if the client's authorizer is
\* None or a NullAuthorizer and its client_id is non-empty; with a real
\* authorizer the body is exactly {token}.
C11_ValidateClientIdRule ==
    (lastCall.op = "oauth2_validate_token" /\ NoBodyParams) =>
        /\ Len(lastCall.requests) = 1
        /\ ("client_id" \in DOMAIN lastCall.requests[1].data)
                <=> (Unauthenticated /\ HasClientId)
        /\ (Unauthenticated /\ HasClientId) =>
                lastCall.requests[1].data
                    = [token |-> lastCall.args.token,
                       client_id |-> lastCall.before.client_id.s]
        /\ ~Unauthenticated =>
                lastCall.requests[1].data = [token |-> lastCall.args.token]

C11_Witness ==
    /\ lastCall.op = "oauth2_validate_token"
    /\ lastCall.args.body_params = None
    /\ lastCall.before.authorizer = "NullAuthorizer"
    /\ lastCall.args.token = "tok456"
    /\ lastCall.requests[1].data = [token |-> "tok456", client_id |-> "CID1"]

\* The request oauth2_validate_token sends for the client and the arguments
\* of the last call.
ValidateRequestOfLastCall ==
    oauth2_validate_token(lastCall.before, lastCall.args, "ok").requests[1]

\* C12: for every client, token and body_params, oauth2_revoke_token sends
\* the request oauth2_validate_token sends for the same client and arguments
\* but for the path; revoking "tok123" without body_params sends
\* {token, client_id} when the authorizer is None and the client_id "CID1",
\* and {token} alone with a real authorizer.
C12_RevokeBodyAsValidate ==
    lastCall.op = "oauth2_revoke_token" =>
        /\ Len(lastCall.requests) = 1
        /\ lastCall.requests[1].data = ValidateRequestOfLastCall.data
        /\ lastCall.requests[1].method = ValidateRequestOfLastCall.method
        /\ lastCall.requests[1].encoding = ValidateRequestOfLastCall.encoding
        /\ lastCall.requests[1].path = "/v2/oauth2/token/revoke"
        /\ ValidateRequestOfLastCall.path = "/v2/oauth2/token/validate"
        /\ (lastCall.args.token = "tok123" /\ NoBodyParams) =>
            /\ (lastCall.before.authorizer = "None"
                    /\ lastCall.before.client_id = PyStr("CID1")) =>
                  lastCall.requests[1].data = [token |-> "tok123", client_id |-> "CID1"]
            /\ ~Unauthenticated =>
                  lastCall.requests[1].data = [token |-> "tok123"]

C12_Witness ==
    /\ lastCall.op = "oauth2_revoke_token"
    /\ lastCall.args.token = "tok123"
    /\ lastCall.args.body_params = None
    /\ lastCall.before.authorizer = "None"
    /\ lastCall.before.client_id = PyStr("CID1")
    /\ lastCall.requests[1].data = [token |-> "tok123", client_id |-> "CID1"]

\* The response the transport gives to a request sent to `path`.
TransportResponse(path) == [t |-> "GlobusHTTPResponse", path |-> path]

\* C13: oauth2_token sends exactly one form-encoded POST to /v2/oauth2/token
\* whose body is form_data with the entries of body_params laid over it
\* (body_params wins a collision; None or {} leaves form_data), and returns
\* the transport's response wrapped in the response_class given,
\* OAuthTokenResponse when none is given.
C13_TokenPrimitive ==
    lastCall.op = "oauth2_token" =>
        LET fd == lastCall.args.form_data
            bp == IF lastCall.args.body_params = None THEN EmptyDict
                  ELSE lastCall.args.body_params
            rc == lastCall.args.response_class
        IN  /\ Len(lastCall.requests) = 1
            /\ lastCall.requests[1].method = "POST"
            /\ lastCall.requests[1].path = "/v2/oauth2/token"
            /\ lastCall.requests[1].encoding = "form"
            /\ DOMAIN lastCall.requests[1].data = DOMAIN fd \cup DOMAIN bp
            /\ \A k \in DOMAIN bp : lastCall.requests[1].data[k] = bp[k]
            /\ \A k \in DOMAIN fd \ DOMAIN bp : lastCall.requests[1].data[k] = fd[k]
            /\ NoBodyParams => lastCall.requests[1].data = fd
            /\ lastCall.raised = "" =>
                /\ lastCall.value.t = IF rc = NotGiven THEN "OAuthTokenResponse" ELSE rc
                /\ lastCall.value.http = TransportResponse("/v2/oauth2/token")

C13_Witness ==
    /\ lastCall.op = "oauth2_token"
    /\ lastCall.raised = ""
    /\ lastCall.args.form_data = [grant_type |-> "refresh_token", refresh_token |-> "rt1"]
    /\ lastCall.args.body_params = [grant_type |-> "other"]
    /\ lastCall.args.response_class = NotGiven
    /\ lastCall.requests[1].data = [grant_type |-> "other", refresh_token |-> "rt1"]
    /\ lastCall.value.t = "OAuthTokenResponse"

\* The request of the oauth2_token call, on the client of the last call, that
\* is given `data` for its form_data and nothing else.
TokenRequestWithBody(data) ==
    oauth2_token(lastCall.before,
                 [form_data |-> data, body_params |-> None, response_class |-> NotGiven],
                 "ok").requests[1]

RefreshAsToken ==
    oauth2_token(lastCall.before,
                 [form_data |-> [refresh_token |-> lastCall.args.refresh_token,
                                 grant_type |-> "refresh_token"],
                  body_params |-> lastCall.args.body_params,
                  response_class |-> NotGiven],
                 IF lastCall.raised = "" THEN "ok" ELSE lastCall.raised)

ScopeString(requested_scopes) ==
    IF requested_scopes = None THEN DefaultScopes
    ELSE IF requested_scopes = PyStr("openid") THEN "openid"
    ELSE "openid profile"

\* C15: oauth2_client_credentials_tokens calls no flow manager: in every
\* client state, before any oauth2_start_flow too, it raises nothing but what
\* the transport raises (never the usage error), leaves the slot as it was and
\* sends exactly one form POST to /v2/oauth2/token with the body
\* {grant_type: client_credentials, scope: the requested scopes as a string}.
C15_ClientCredentialsNeedsNoFlow ==
    lastCall.op = "oauth2_client_credentials_tokens" =>
        /\ lastCall.raised # UsageError
        /\ lastCall.raised \in {""} \cup TransportOutcomes
        /\ lastCall.fm_calls = <<>>
        /\ current_oauth2_flow_manager[lastCall.client]
                = lastCall.before.current_oauth2_flow_manager
        /\ Len(lastCall.requests) = 1
        /\ lastCall.requests[1].method = "POST"
        /\ lastCall.requests[1].path = "/v2/oauth2/token"
        /\ lastCall.requests[1].encoding = "form"
        /\ lastCall.requests[1].data
                = [grant_type |-> "client_credentials",
                   scope |-> ScopeString(lastCall.args.requested_scopes)]
        /\ lastCall.raised = "" => lastCall.value.t = "OAuthTokenResponse"

C15_Witness ==
    /\ lastCall.op = "oauth2_client_credentials_tokens"
    /\ NeverStarted
    /\ lastCall.before.current_oauth2_flow_manager = None
    /\ lastCall.raised = ""
    /\ lastCall.args.requested_scopes = PyList(<<PyStr("openid"), PyStr("profile")>>)
    /\ lastCall.requests[1].data
            = [grant_type |-> "client_credentials", scope |-> "openid profile"]

\* C16: oauth2_get_dependent_tokens sends one form POST to /v2/oauth2/token
\* whose body has grant_type=urn:globus:auth:grant_type:dependent_token and
\* the token, has access_type=offline if and only if refresh_tokens is true,
\* and has every key of additional_params with the caller's value, which
\* overrides grant_type, token and access_type; the response is an
\* OAuthDependentTokenResponse.
C16_DependentTokensBody ==
    lastCall.op = "oauth2_get_dependent_tokens" =>
        LET ap == IF lastCall.args.additional_params = None THEN EmptyDict
                  ELSE lastCall.args.additional_params
            data == lastCall.requests[1].data
        IN  /\ Len(lastCall.requests) = 1
            /\ lastCall.requests[1].method = "POST"
            /\ lastCall.requests[1].path = "/v2/oauth2/token"
            /\ lastCall.requests[1].encoding = "form"
            /\ DOMAIN data = {"grant_type", "token"} \cup DOMAIN ap
                    \cup (IF lastCall.args.refresh_tokens THEN {"access_type"} ELSE {})
            /\ \A k \in DOMAIN ap : data[k] = ap[k]
            /\ "grant_type" \notin DOMAIN ap =>
                    data.grant_type = "urn:globus:auth:grant_type:dependent_token"
            /\ "token" \notin DOMAIN ap => data.token = lastCall.args.token
            /\ "access_type" \notin DOMAIN ap =>
                    /\ ("access_type" \in DOMAIN data) <=> lastCall.args.refresh_tokens
                    /\ lastCall.args.refresh_tokens => data.access_type = "offline"
            /\ lastCall.raised = "" =>
                    /\ lastCall.value.t = "OAuthDependentTokenResponse"
                    /\ lastCall.value.http = TransportResponse("/v2/oauth2/token")

C16_Witness ==
    /\ lastCall.op = "oauth2_get_dependent_tokens"
    /\ lastCall.raised = ""
    /\ lastCall.args.refresh_tokens
    /\ lastCall.args.token = "tok123"
    /\ lastCall.args.additional_params = [grant_type |-> "other", token |-> "tokX"]
    /\ lastCall.requests[1].data
            = [grant_type |-> "other", token |-> "tokX", access_type |-> "offline"]

\* Every exchange recorded since the last oauth2_start_flow was carried out by
\* the manager that is current, was not rejected by the client, and sent its
\* one request, with its own code, to the token endpoint.
C17_ExchangeLog ==
    started["A"] # None =>
        /\ current_oauth2_flow_manager["c1"] # None
        /\ \A i \in 1..Len(exchanged) :
            /\ exchanged[i].raised # UsageError
            /\ exchanged[i].raised \in {""} \cup TransportOutcomes
            /\ exchanged[i].fm_calls
                    = <<[id |-> current_oauth2_flow_manager["c1"].id,
                         method |-> "exchange_code_for_tokens"]>>
            /\ Len(exchanged[i].requests) = 1
            /\ exchanged[i].requests[1].method = "POST"
            /\ exchanged[i].requests[1].path = "/v2/oauth2/token"
            /\ exchanged[i].requests[1].data.code = exchanged[i].auth_code

\* C17: after oauth2_start_flow, every one of n successive
\* oauth2_exchange_code_for_tokens calls, with the same code or another and
\* whatever the earlier ones met, is carried out by the current manager and
\* sends one request to the token endpoint (n requests for n calls); none is
\* rejected by the client and the flow is still bound after each.
C17_ExchangeRepeatable ==
    /\ []C17_ExchangeLog
    /\ [][(started["A"] # None /\ Len(exchanged') = Len(exchanged) + 1) =>
            /\ current_oauth2_flow_manager'["c1"] = current_oauth2_flow_manager["c1"]
            /\ current_oauth2_flow_manager'["c1"] # None
            /\ Len(lastCall'.requests) = 1
            /\ lastCall'.raised # UsageError]_vars

C17_Witness ==
    /\ started["A"] # None
    /\ Len(exchanged) = 3
    /\ exchanged[1].auth_code = "CODE1" /\ exchanged[1].raised = ""
    /\ exchanged[2].auth_code = "CODE1" /\ exchanged[2].raised = "GlobusAPIError"
    /\ exchanged[3].auth_code = "BADCODE" /\ exchanged[3].raised = ""
    /\ \A i \in 1..3 : Len(exchanged[i].requests) = 1
    /\ current_oauth2_flow_manager["c1"] # None

TokenOps ==
    {"oauth2_token", "oauth2_refresh_token", "oauth2_validate_token",
     "oauth2_revoke_token", "oauth2_client_credentials_tokens",
     "oauth2_get_dependent_tokens"}

\* The transport raised on the request of the last call.
TransportRaised == lastCall.transport \in {"NetworkError", "GlobusAPIError"}

\* C18: when the transport raises (a network failure, a non-2xx response)
\* during one of the token operations, the caller gets that very error after
\* exactly one request: it is not caught, the request is not sent again, no
\* response object is made, and the client is as it was before the call.
C18_TransportErrorPropagates ==
    (lastCall.op \in TokenOps /\ TransportRaised) =>
        /\ lastCall.raised = lastCall.transport
        /\ Len(lastCall.requests) = 1
        /\ lastCall.value = None
        /\ Self(lastCall.client) = lastCall.before

C18_Witness ==
    /\ lastCall.op = "oauth2_get_dependent_tokens"
    /\ lastCall.transport = "NetworkError"
    /\ lastCall.raised = "NetworkError"
    /\ Len(lastCall.requests) = 1
    /\ lastCall.before.current_oauth2_flow_manager # None

\* The service answered the last FlowsClient call with a status outside 2xx.
Non2xx == flowsCall.answer.t = "response" /\ flowsCall.answer.status \notin 200..299

\* C19: a non-2xx response to a FlowsClient request is not returned: the call
\* raises a FlowsAPIError whose code is the code the service gave and whose
\* messages are the service's messages in the service's order
\* (UNPROCESSABLE_ENTITY and the two messages of the service for a create_flow
\* with two unrecognised administrators).
C19_FlowsErrorRaised ==
    (flowsCall.op # "" /\ Non2xx) =>
        /\ flowsCall.value = None
        /\ flowsCall.raised = "FlowsAPIError"
        /\ flowsCall.error.t = "FlowsAPIError"
        /\ flowsCall.error.code = flowsCall.answer.body.code
        /\ flowsCall.error.messages = flowsCall.answer.body.messages
        /\ Len(flowsCall.requests) = 1
        /\ flowsCall.answer.status = 422 => flowsCall.error.code = "UNPROCESSABLE_ENTITY"

C19_Witness ==
    /\ flowsCall.op = "create_flow"
    /\ flowsCall.args.flow_administrators
            = PyList(<<PyStr("ae341a98-d274-11e5-b888-dbae3a8ba545"),
                       PyStr("4fab4345-6d20-43a0-9a25-16b2e3bbe765")>>)
    /\ flowsCall.answer.t = "response"
    /\ flowsCall.answer.status = 422
    /\ flowsCall.raised = "FlowsAPIError"
    /\ flowsCall.error.code = "UNPROCESSABLE_ENTITY"
    /\ flowsCall.error.messages = <<BadPrincipal1, BadPrincipal2>>

\* The items of the first n pages of the listing, in the service's order.
RECURSIVE ItemsOfPages(_)
ItemsOfPages(n) ==
    IF n = 0 THEN <<>> ELSE ItemsOfPages(n - 1) \o source.pages[n][pager.items_key]

\* What holds while a marker-style Paginator is iterated: over a listing
\* whose page k is the first without a marker it never calls the method more
\* than k times and yields the items in the service's order; when it has
\* ended it has called the method exactly k times and yielded exactly the
\* items of pages 1..k; over a listing that always gives a marker it has not
\* ended.
C20_PagingInv ==
    pager.pc # "none" =>
        /\ ~source.endless =>
            /\ pager.fetches <= Len(source.pages)
            /\ Len(pager.yielded) <= Len(ItemsOfPages(Len(source.pages)))
            /\ pager.yielded
                    = SubSeq(ItemsOfPages(Len(source.pages)), 1, Len(pager.yielded))
        /\ pager.pc = "done" =>
            /\ ~source.endless
            /\ pager.raised = ""
            /\ pager.fetches = Len(source.pages)
            /\ pager.yielded = ItemsOfPages(Len(source.pages))
        /\ source.endless => pager.pc # "done"

\* C20: iterating a marker-style Paginator over a listing whose k-th page is
\* the first with a null or absent marker yields exactly the items of pages
\* 1..k with exactly k calls of the method and then stops (for k = 3, no
\* fourth call), and the iteration does come to that end unless a call
\* fails; over a listing that never gives a null marker it never ends by
\* itself.
C20_MarkerPaginatorTermination ==
    /\ []C20_PagingInv
    /\ [][pager.pc = "done" => pager'.fetches <= pager.fetches]_vars
    /\ (pager.pc = "fetch" /\ ~source.endless) ~> (pager.pc \in {"done", "failed"})

C20_Witness ==
    /\ pager.pc = "done"
    /\ Len(source.pages) = 3
    /\ pager.fetches = 3
    /\ source.pages[3].marker = None
    /\ Len(pager.yielded) = 5
    /\ pager.yielded[5] = [page |-> 3, n |-> 1]

\* The items of the pages the first n calls of the Paginator gave, in the
\* order of the calls and, within a page, in the page's order.
RECURSIVE ItemsFetched(_)
ItemsFetched(n) ==
    IF n = 0 THEN <<>>
    ELSE ItemsFetched(n - 1)
            \o (IF consumer.fetched[n].raised = ""
                THEN consumer.fetched[n].page[pager.items_key] ELSE <<>>)

\* C21: the items a Paginator has yielded are the items found under its
\* items key (flows, runs, entries) in the pages it fetched, page after page
\* in the order of the fetches and in each page's own order, nothing dropped,
\* repeated or moved; the pages fetched are the service's pages in the
\* service's order; and each fetch is made when every item of every page
\* fetched before has been yielded, so that one page at most is held.
C21_FlattenedInFetchOrder ==
    pager.pc # "none" =>
        LET n == Len(consumer.fetched)
            k == Len(source.pages)
        IN  /\ pager.fetches = n
            /\ Len(pager.yielded) <= Len(ItemsFetched(n))
            /\ pager.yielded = SubSeq(ItemsFetched(n), 1, Len(pager.yielded))
            /\ pager.pc \in {"fetch", "done", "failed"} => pager.yielded = ItemsFetched(n)
            /\ \A i \in 1..n :
                /\ consumer.fetched[i].at = Len(ItemsFetched(i - 1))
                /\ consumer.fetched[i].raised = "" =>
                        consumer.fetched[i].page = source.pages[((i - 1) % k) + 1]

C21_Witness ==
    /\ pager.method = "get_run_logs"
    /\ pager.pc = "done"
    /\ Len(consumer.fetched) = 3
    /\ pager.yielded =
            <<[page |-> 1, n |-> 1], [page |-> 1, n |-> 2], [page |-> 3, n |-> 1]>>
    /\ source.pages[2].entries = <<>>
    /\ consumer.fetched[3].at = 2

\* The call of the Paginator that the service failed, if there is one.
FailedFetch ==
    {i \in 1..Len(consumer.fetched) : consumer.fetched[i].outcome # "ok"}

\* What holds of an iteration in which the service fails a call: it is the
\* last call made, the consumer has been given the failure and not an end,
\* and what had been yielded before is all of the pages before, untouched.
C22_FailureInv ==
    /\ pager.pc = "done" => FailedFetch = {}
    /\ \A i \in FailedFetch :
        /\ i = Len(consumer.fetched)
        /\ pager.fetches = i
        /\ pager.pc = "failed"
        /\ pager.raised = consumer.fetched[i].raised
        /\ pager.raised \in {"FlowsAPIError", "NetworkError"}
        /\ pager.yielded = ItemsFetched(i - 1)
        /\ Len(pager.yielded) = consumer.fetched[i].at
        /\ (~source.endless /\ i - 1 <= Len(source.pages)) =>
                pager.yielded = ItemsOfPages(i - 1)

\* C22: when the fetch of page N+1 fails, the consumer has received every
\* item of pages 1..N, unchanged and in order, and receives the failure at
\* the step where the first item of page N+1 would have come; the iteration
\* is not ended as if the listing were exhausted; and the Paginator does not
\* call the method again: nothing more is fetched or yielded.
C22_FailureOnNextPage ==
    /\ []C22_FailureInv
    /\ [][pager.pc = "failed" => (pager' = pager /\ consumer' = consumer)]_vars

C22_Witness ==
    /\ pager.method = "list_flows"
    /\ pager.pc = "failed"
    /\ pager.raised = "FlowsAPIError"
    /\ Len(consumer.fetched) = 3
    /\ consumer.fetched[3].outcome = "error"
    /\ pager.yielded =
            <<[page |-> 1, n |-> 1], [page |-> 2, n |-> 1], [page |-> 2, n |-> 2]>>

\* The marker a page gives: None when the page has none.
MarkerOfPage(page) ==
    IF "marker" \in DOMAIN page THEN dict_get(page, "marker") ELSE None

\* The cursor of a Paginator moves only forward: it is None until the first
\* page has been used up, then the marker of the page fetched last, never
\* None again and never the marker of an earlier page.
C23_CursorForward ==
    \A i \in 1..Len(consumer.fetched) :
        /\ (i = 1) = (consumer.fetched[i].cursor = None)
        /\ i > 1 => consumer.fetched[i].cursor = MarkerOfPage(consumer.fetched[i - 1].page)

\* A Paginator fetches only what the consumer has asked for: nothing when it
\* is made, one page more only when the items of the pages before have all
\* been taken, and nothing once the consumer has abandoned it.
C23_Lazy ==
    /\ \A i \in 1..Len(consumer.fetched) :
            consumer.fetched[i].at = Len(ItemsFetched(i - 1))
    /\ pager.fetches = Len(consumer.fetched)
    /\ pager.fetches <= Len(pager.yielded) + 1

\* Every Paginator starts where the arguments of its invocation say,
\* whatever Paginators there were before it: its first request is the
\* request of the method called with the arguments as the caller wrote them.
C23_StartsAtBeginning ==
    Len(consumer.fetched) >= 1 =>
        consumer.fetched[1].query_params
            = method_query_params(pager.method, consumer.kwargs)

\* C23: a Paginator is single-pass and lazy. Its cursor moves only forward
\* through the markers the service returns; it never makes more calls than
\* the pages the consumer has asked for, and none after the consumer has
\* abandoned it; and every invocation of a listing method gives a new
\* Paginator that starts at the beginning, independently of any other.
C23_SinglePassLazyIndependent ==
    /\ C23_CursorForward
    /\ C23_Lazy
    /\ C23_StartsAtBeginning

\* The caller of the current invocation supplied a marker: as the `marker`
\* argument, or inside the query_params it passed.
MarkerSupplied ==
    \/ consumer.passed.marker # None
    \/ /\ consumer.passed.query_params # None
       /\ "marker" \in DOMAIN consumer.passed.query_params

\* Request i of the Paginator is request i - 1 with the marker of response
\* i - 1 for its marker.
FollowsMarker(i) ==
    consumer.fetched[i].query_params
        = DictSet(consumer.fetched[i - 1].query_params, "marker",
                  MarkerOfPage(consumer.fetched[i - 1].page))

\* C24: in a marker-paginated listing (list_flows, list_runs, get_run_logs)
\* the first request has a marker only if the caller supplied one; every
\* later request has for its marker the marker of the response just before
\* it, and its other query parameters are those of the request before; and
\* after a response without a marker no request follows.
C24_MarkerPropagation ==
    \A i \in 1..Len(consumer.fetched) :
        /\ (i = 1 /\ "marker" \in DOMAIN consumer.fetched[i].query_params) =>
                MarkerSupplied
        /\ i > 1 =>
            /\ MarkerOfPage(consumer.fetched[i - 1].page) # None
            /\ FollowsMarker(i)

\* The named arguments of the last FlowsClient call that stand for fields of
\* the body, and the body it sent.
NamedFields == DOMAIN flowsCall.args \ {"flow_id", "run_id", "additional_fields"}
BodySent == flowsCall.requests[1].data
AdditionalFields ==
    IF Truthy(flowsCall.args.additional_fields) THEN flowsCall.args.additional_fields
    ELSE EmptyDict
BodyOps == {"create_flow", "update_flow", "update_run", "run_flow"}

\* C25 as stated: the body has a named field if and only if its argument is
\* not None, every field present has the value of its argument, and every key
\* of additional_fields is present with the value additional_fields gives it.
C25_NamedFieldIffGiven ==
    flowsCall.op \in BodyOps =>
        /\ \A k \in NamedFields :
            /\ (k \in DOMAIN BodySent) = (flowsCall.args[k] # None)
            /\ (k \in DOMAIN BodySent \ DOMAIN AdditionalFields) =>
                    BodySent[k] = flowsCall.args[k]
        /\ \A k \in DOMAIN AdditionalFields :
            /\ k \in DOMAIN BodySent
            /\ BodySent[k] = AdditionalFields[k]

\* C25: the body built by create_flow, update_flow, update_run and run_flow
\* has exactly the named fields whose argument is not None and the keys of
\* additional_fields; a key of additional_fields has the value
\* additional_fields gives it, also when it is the name of a named field
\* (given or not); every other field has the value of its argument; no field
\* is sent as a null for an argument that was not given.
C25_BodyFields ==
    flowsCall.op \in BodyOps =>
        /\ DOMAIN BodySent
                = {k \in NamedFields : flowsCall.args[k] # None}
                    \cup DOMAIN AdditionalFields
        /\ \A k \in DOMAIN BodySent :
                BodySent[k] = IF k \in DOMAIN AdditionalFields THEN AdditionalFields[k]
                              ELSE flowsCall.args[k]
        /\ \A k \in NamedFields \ DOMAIN AdditionalFields :
                (k \in DOMAIN BodySent) = (flowsCall.args[k] # None)
        /\ Len(flowsCall.requests) = 1

C25_Witness ==
    /\ flowsCall.op = "update_flow"
    /\ flowsCall.args.title = None
    /\ flowsCall.args.keywords = OneKeyword
    /\ flowsCall.args.additional_fields = None
    /\ BodySent = [keywords |-> OneKeyword]
    /\ flowsCall.raised = ""

\* C26: the token response made of a payload for one resource server (one
\* token object at the top level) and the token response made of the same
\* token in the shape with other_tokens expose the same mapping by resource
\* server: one key, the token's resource server, and under it the record of
\* that token.
C26_TokenShapesSameMapping ==
    tokens.payload # None =>
        /\ DOMAIN tokens.single = {tokens.payload.resource_server}
        /\ DOMAIN tokens.wrapped = {tokens.payload.resource_server}
        /\ tokens.single = tokens.wrapped
        /\ \A rs \in DOMAIN tokens.single :
            /\ tokens.single[rs].access_token = tokens.payload.access_token
            /\ tokens.single[rs].resource_server = rs
            /\ tokens.wrapped[rs].scope = tokens.payload.scope
            /\ (tokens.wrapped[rs].refresh_token # None)
                    = ("refresh_token" \in DOMAIN tokens.payload)

C26_Witness ==
    /\ tokens.payload # None
    /\ tokens.shape = "inside"
    /\ tokens.payload.resource_server = "transfer.api.globus.org"
    /\ "refresh_token" \in DOMAIN tokens.payload
    /\ DOMAIN tokens.wrapped = {"transfer.api.globus.org"}
    /\ tokens.wrapped["transfer.api.globus.org"].refresh_token = PyStr("RT1")
    /\ tokens.single = tokens.wrapped

\* a ends with a slash; b, a str that is not empty, starts with one.
EndsWithSlash(a) == a # <<>> /\ a[Len(a)] = "/"
StartsWithSlash(b) == b.chars # <<>> /\ b.chars[1] = "/"

\* a without one slash at its end, b without one slash at its start.
WithoutTrailingSlash(a) == IF EndsWithSlash(a) THEN SubSeq(a, 1, Len(a) - 1) ELSE a
WithoutLeadingSlash(b) == IF StartsWithSlash(b) THEN Tail(b.chars) ELSE b.chars

\* C27: slash_join(a, b) is a itself when b is None or empty. Otherwise it is
\* a and b with one slash between them: when a ends with a slash and b starts
\* with one, one of the two is left out; when only one of them does, nothing
\* is added; when neither does, one slash is put in. In each case the result
\* is a without one slash at its end, a slash, and b without one slash at
\* its start: the join gives one slash, not two and not none.
C27_SlashJoinSingleSlash ==
    LET a == joined.a
        b == joined.b
        out == joined.out
    IN  IF b = None \/ b.chars = <<>> THEN out = a
        ELSE /\ (EndsWithSlash(a) /\ StartsWithSlash(b)) =>
                    /\ out = SubSeq(a, 1, Len(a) - 1) \o b.chars
                    /\ out = a \o Tail(b.chars)
                    /\ Len(out) = Len(a) + Len(b.chars) - 1
             /\ (EndsWithSlash(a) # StartsWithSlash(b)) => out = a \o b.chars
             /\ (~EndsWithSlash(a) /\ ~StartsWithSlash(b)) =>
                    out = a \o <<"/">> \o b.chars
             /\ out = WithoutTrailingSlash(a) \o <<"/">> \o WithoutLeadingSlash(b)
             /\ out[Len(WithoutTrailingSlash(a)) + 1] = "/"

C27_Witness ==
    /\ joined.a = <<"a", "/">>
    /\ joined.b = PyChars(<<"/", "a">>)
    /\ joined.out = <<"a", "/", "a">>

\* The query_params the caller passed hold a marker of their own.
MarkerInQueryParams ==
    /\ consumer.invocations > 0
    /\ consumer.passed.query_params # None
    /\ "marker" \in DOMAIN consumer.passed.query_params

\* C28: in list_flows, list_runs and get_run_logs a `marker` argument that is
\* not None is the marker the request carries, also when the query_params
\* passed hold a marker of their own; so an iteration started with such
\* query_params asks, after each page, for the page of the marker that page
\* gave, and not for the same page again.
C28_MarkerArgumentWins ==
    /\ (flowsCall.op \in DOMAIN ItemsKey /\ flowsCall.args.marker # None) =>
        /\ "marker" \in DOMAIN flowsCall.requests[1].query_params
        /\ flowsCall.requests[1].query_params.marker = flowsCall.args.marker
    /\ MarkerInQueryParams =>
        \A i \in 2..Len(consumer.fetched) :
            /\ "marker" \in DOMAIN consumer.fetched[i].query_params
            /\ consumer.fetched[i].query_params.marker
                    = MarkerOfPage(consumer.fetched[i - 1].page)
            /\ consumer.fetched[i].query_params # consumer.fetched[i - 1].query_params

\* The request a second oauth2_token call sends when it is given, without
\* body_params, the form_data object the last call left behind.
SecondTokenRequest ==
    oauth2_token(lastCall.before,
                 [form_data |-> lastCall.after.form_data, body_params |-> None,
                  response_class |-> NotGiven], "ok").requests[1]

\* C29: oauth2_token builds the body it posts in a mapping of its own. After
\* the call, whether it returned or raised, the caller's form_data and
\* body_params hold what they held before, while the body posted is the two
\* merged; a second call given the same form_data object and no body_params
\* posts the original form_data, not the merged body of the first call.
C29_TokenBodyInFreshMapping ==
    lastCall.op = "oauth2_token" =>
        /\ lastCall.after.form_data = lastCall.args.form_data
        /\ lastCall.after.body_params = lastCall.args.body_params
        /\ lastCall.requests[1].data
                = oauth2_token_data(lastCall.args.form_data, lastCall.args.body_params)
        /\ SecondTokenRequest.data = lastCall.args.form_data

C29_Witness ==
    /\ lastCall.op = "oauth2_token"
    /\ lastCall.raised = "NetworkError"
    /\ lastCall.args.form_data = [grant_type |-> "client_credentials"]
    /\ lastCall.args.body_params = [extra |-> "1"]
    /\ lastCall.requests[1].data = [grant_type |-> "client_credentials", extra |-> "1"]
    /\ lastCall.after.form_data = [grant_type |-> "client_credentials"]
    /\ SecondTokenRequest.data = [grant_type |-> "client_credentials"]

\* The keyword arguments of oauth2_get_authorize_url that become query
\* parameters of their own name, and what each becomes.
AuthorizeKeywords ==
    {"session_required_identities", "session_required_single_domain",
     "session_required_policies", "prompt"}
NormalizedKeyword(k) ==
    IF k = "prompt" THEN lastCall.args.prompt.s ELSE commajoin(lastCall.args[k])

\* C30: when the query_params given to oauth2_get_authorize_url hold a key
\* session_required_identities, session_required_single_domain,
\* session_required_policies or prompt, the flow manager is given, for that
\* key, the normalized keyword argument of that name if it is not None, and
\* the entry of query_params as it is if it is None; every other key of
\* query_params is given to the flow manager as it is.
C30_KeywordOverridesQueryParams ==
    (/\ lastCall.op = "oauth2_get_authorize_url"
     /\ lastCall.raised = ""
     /\ lastCall.args.query_params # None) =>
        \A k \in DOMAIN lastCall.args.query_params :
            /\ k \in DOMAIN lastCall.value.query
            /\ lastCall.value.query[k]
                = IF k \in AuthorizeKeywords /\ lastCall.args[k] # None
                  THEN NormalizedKeyword(k)
                  ELSE lastCall.args.query_params[k]

C30_Witness ==
    /\ lastCall.op = "oauth2_get_authorize_url"
    /\ lastCall.raised = ""
    /\ lastCall.args.query_params # None
    /\ DOMAIN lastCall.args.query_params = AuthorizeKeywords
    /\ lastCall.args.session_required_identities = PyList(<<PyStr("id1"), PyUUID("id2")>>)
    /\ lastCall.args.session_required_policies = None
    /\ lastCall.args.prompt = PyStr("login")
    /\ lastCall.value.query.session_required_identities = "id1,id2"
    /\ lastCall.value.query.session_required_policies = "oldpol"
    /\ lastCall.value.query.prompt = "login"

====
